---- MODULE Spec2Model ----
(***************************************************************************)
(* Model of the brute-force rate limiter of pearpass-lib-vault-core        *)
(* (src/src/worklet/rateLimiter.js).                                       *)
(*                                                                         *)
(* The persisted RateLimitState lives in a caller-supplied key-value       *)
(* store under the key 'rateLimitData'.  Every public method of the class  *)
(* RateLimiter is one action.  Date.now() is the variable now; a handler   *)
(* runs at one instant (every Date.now() of one call returns the same      *)
(* value, as under the mocked clock of the test-suite) and the clock       *)
(* advances between calls (Tick).  storage.get and storage.add may reject: *)
(* whether they do is an input of the action.                              *)
(*                                                                         *)
(* Times are milliseconds.  null is NULL for the two optional timestamps.  *)
(*                                                                         *)
(* The second part models the master password manager                      *)
(* (src/src/worklet/masterPasswordManager.js), which calls the rate        *)
(* limiter after a failed password entry.  Its implementation is not among *)
(* the sources at hand: its four entry points are modelled from section    *)
(* 4.2 of the specification and from the collaborators its test-suite      *)
(* mocks (src/src/worklet/masterPasswordManager.test.js).                  *)
(***************************************************************************)
EXTENDS Integers, Sequences, FiniteSets, TLC

VARIABLES
    storage,      \* this.storage: "null" (unbound), "bound" (the store), or
                  \* "invalid" (a truthy value that has no get and no add)
    stored,       \* the value the store holds under STORAGE_KEY
    now,          \* Date.now()
    op,           \* name of the last method called
    arg,          \* its argument (NULL when it takes none)
    pre,          \* the value the store held when the call started
    storageBefore,\* this.storage when the call started
    readThrew,    \* storage.get rejected during the call
    writeThrew,   \* storage.add rejected during the call
    addCalls,     \* number of storage.add calls the call made
    ret,          \* what the call returned or threw
    afterReset,   \* a reset() succeeded and no call was made between it and
                  \* the last step
    streak,       \* successful recordFailure() calls since the default state,
                  \* fault-free and less than 24h apart (-1: not such a run)
    streakAt,     \* time of the last call of that run
    encryptionInitialized, \* appDeps.getIsEncryptionInitialized()
    vaultsInitialized,     \* appDeps.getIsVaultsInitialized()
    vaultsKey,        \* encryptionKey the vault store was initialized with
    masterEncryption, \* vault-store record under 'masterEncryption'
    masterPassword,   \* encryption-store record under 'masterPassword'
    calls,            \* collaborators the last manager call invoked, in order
    mgrPre,           \* the manager's stores when the last manager call started
    created,          \* password of the last createMasterPassword that
                      \* succeeded, "none" once the record was replaced
    inFlight,     \* per caller: the call that awaits its storage.add
    completed,    \* recordFailure() calls whose storage.add resolved
    restarted,    \* a cooldown fresh start or a reset took place
    transport,    \* ipc of app-ipc.js: "none" before the module is loaded
    bareKit,      \* the global BareKit is defined
    request,      \* the message the 'data' handler is handling
    phase,        \* handleRpcCommand(req): "idle", "running", "suspended"
    stream,       \* what req.createRequestStream() returned
    listeners,    \* events of the stream that have a listener
    microtask,    \* the callback passed to queueMicrotask
    emitted,      \* listener calls the stream made, in order
    written,      \* writes req.reply made, in order
    ipcError      \* exception raised by the module or the handler

mgrVars == << encryptionInitialized, vaultsInitialized, vaultsKey,
              masterEncryption, masterPassword, calls, mgrPre, created >>

rlVars == << storage, stored, now, op, arg, pre, storageBefore, readThrew,
             writeThrew, addCalls, ret, afterReset, streak, streakAt >>

overlapVars == << inFlight, completed, restarted >>

ipcVars == << transport, bareKit, request, phase, stream, listeners,
              microtask, emitted, written, ipcError >>

vars == << storage, stored, now, op, arg, pre, storageBefore, readThrew,
           writeThrew, addCalls, ret, afterReset, streak, streakAt,
           encryptionInitialized, vaultsInitialized, vaultsKey,
           masterEncryption, masterPassword, calls, mgrPre, created,
           inFlight, completed, restarted,
           transport, bareKit, request, phase, stream, listeners,
           microtask, emitted, written, ipcError >>

----------------------------------------------------------------------------
(* Program constants, rateLimiter.js:1-10 *)

MAX_ATTEMPTS == 5

MAX_BACKOFF_MINUTES == 24 * 60

COOLDOWN_PERIOD_MS == MAX_BACKOFF_MINUTES * 60 * 1000

NULL == -1

DEFAULT_DATA ==
    [consecutiveFailures |-> 0, lockoutUntil |-> NULL, lastAttemptTime |-> NULL]

(* What storage.get resolves to when nothing is stored: null or undefined *)
NoValue == { [absent |-> "null"], [absent |-> "undefined"] }

IsAbsent(v) == "absent" \in DOMAIN v

----------------------------------------------------------------------------
(* Bounds of the model *)

\* Date.now() of the initial state (the mocked clock of the tests)
T0 == 1000000

\* the clock is read during the first MaxMinutes minutes of a day, on the day
\* of T0 and on the MaxDays days after it
MaxMinutes == 5

MaxDays == 1

\* recordFailure() is not called once the counter it reads reached MaxFailures
\* (unless that counter is BigCounter)
MaxFailures == 16

\* calculateBackoffDuration is applied to -1 .. MaxArg (and to 1000)
MaxArg == 120

\* a counter far beyond the cap of the backoff, which a store may hold
BigCounter == 100

\* steps of the clock: one minute, two minutes, 24 hours
Deltas == { 60000, 120000, 86400000 }

----------------------------------------------------------------------------
(* Return values *)

Status(isLocked, lockoutRemainingMs, remainingAttempts) ==
    [kind |-> "status", isLocked |-> isLocked,
     lockoutRemainingMs |-> lockoutRemainingMs,
     remainingAttempts |-> remainingAttempts]

Threw(message) == [kind |-> "error", message |-> message]

Returned(v) == [kind |-> "value", value |-> v]

Void == [kind |-> "void"]

Max(a, b) == IF a >= b THEN a ELSE b

Min(a, b) == IF a <= b THEN a ELSE b

----------------------------------------------------------------------------
(* Pure helpers of RateLimiter *)

\* Math.pow(2, exponent).  Every power beyond 2^30 is represented by 2^30:
\* the only use of the result is Math.min(_, 1440).
MathPow2(exponent) == IF exponent <= 30 THEN 2 ^ exponent ELSE 2 ^ 30

\* variant: the cap is twice MAX_BACKOFF_MINUTES
calculateBackoffDuration_CapTwoDays(consecutiveFailures) ==
    IF consecutiveFailures < MAX_ATTEMPTS
    THEN 0
    ELSE LET exponent == consecutiveFailures - MAX_ATTEMPTS + 1
             backoffMinutes == MathPow2(exponent)
             cappedMinutes == Min(backoffMinutes, 2 * MAX_BACKOFF_MINUTES)
         IN  cappedMinutes * 60 * 1000

\* variant: the exponent starts at 0 on the 5th failure
calculateBackoffDuration_ExponentFromZero(consecutiveFailures) ==
    IF consecutiveFailures < MAX_ATTEMPTS
    THEN 0
    ELSE LET exponent == consecutiveFailures - MAX_ATTEMPTS
             backoffMinutes == MathPow2(exponent)
             cappedMinutes == Min(backoffMinutes, MAX_BACKOFF_MINUTES)
         IN  cappedMinutes * 60 * 1000

calculateBackoffDuration(consecutiveFailures) ==
    IF consecutiveFailures < MAX_ATTEMPTS
    THEN 0
    ELSE LET exponent == consecutiveFailures - MAX_ATTEMPTS + 1
             backoffMinutes == MathPow2(exponent)
             cappedMinutes == Min(backoffMinutes, MAX_BACKOFF_MINUTES)
         IN  cappedMinutes * 60 * 1000

\* variant: the lockout still holds at the instant lockoutUntil
isLockoutExpired_Strict(lockoutUntil, t) ==
    IF lockoutUntil = NULL THEN TRUE ELSE t > lockoutUntil

isLockoutExpired(lockoutUntil, t) ==
    IF lockoutUntil = NULL THEN TRUE ELSE t >= lockoutUntil

\* variant: exactly 24h of inactivity is not yet enough
shouldGrantFreshStart_Strict(lastAttemptTime, t) ==
    IF lastAttemptTime = NULL THEN FALSE
    ELSE t - lastAttemptTime > COOLDOWN_PERIOD_MS

\* variant: no null check, so that null counts as time 0 in the subtraction
shouldGrantFreshStart_NullAsZero(lastAttemptTime, t) ==
    IF lastAttemptTime = NULL THEN t - 0 >= COOLDOWN_PERIOD_MS
    ELSE t - lastAttemptTime >= COOLDOWN_PERIOD_MS

shouldGrantFreshStart(lastAttemptTime, t) ==
    IF lastAttemptTime = NULL THEN FALSE
    ELSE t - lastAttemptTime >= COOLDOWN_PERIOD_MS

\* variant: a failed read yields a state locked for the first backoff
getData_FailLocked(value, getRejects, t) ==
    IF getRejects
    THEN LET backoffMs == calculateBackoffDuration(MAX_ATTEMPTS)
         IN  [consecutiveFailures |-> 1,
              lockoutUntil |-> t + backoffMs,
              lastAttemptTime |-> t]
    ELSE IF IsAbsent(value) THEN DEFAULT_DATA ELSE value

\* variant: a failed read yields the default state
getData_FailOpen(value, getRejects, t) ==
    IF getRejects
    THEN DEFAULT_DATA
    ELSE IF IsAbsent(value) THEN DEFAULT_DATA ELSE value

\* getData() with a bound storage: the value read, the default when the
\* store holds nothing, a synthesized state when storage.get rejects
getData(value, getRejects, t) ==
    IF getRejects
    THEN LET backoffMs == calculateBackoffDuration(1)
         IN  [consecutiveFailures |-> 1,
              lockoutUntil |-> t + backoffMs,
              lastAttemptTime |-> t]
    ELSE IF IsAbsent(value) THEN DEFAULT_DATA ELSE value

\* variant: no branch for a lockout that has passed
getStatusResult_NoExpiredBranch(data, t) ==
    IF shouldGrantFreshStart(data.lastAttemptTime, t)
    THEN Status(FALSE, 0, MAX_ATTEMPTS)
    ELSE LET isLocked == data.lockoutUntil # NULL
             lockoutRemainingMs ==
                 IF data.lockoutUntil # NULL /\ data.lockoutUntil # 0
                 THEN Max(0, data.lockoutUntil - t)
                 ELSE 0
             remainingAttempts ==
                 IF isLocked THEN 0
                 ELSE Max(0, MAX_ATTEMPTS - data.consecutiveFailures)
         IN  Status(isLocked, lockoutRemainingMs, remainingAttempts)

\* variant: the attempts left are computed from the counter also while locked
getStatusResult_AttemptsWhileLocked(data, t) ==
    IF shouldGrantFreshStart(data.lastAttemptTime, t)
    THEN Status(FALSE, 0, MAX_ATTEMPTS)
    ELSE IF data.lockoutUntil # NULL /\ isLockoutExpired(data.lockoutUntil, t)
    THEN Status(FALSE, 0, 0)
    ELSE LET isLocked == data.lockoutUntil # NULL
             lockoutRemainingMs ==
                 IF data.lockoutUntil # NULL /\ data.lockoutUntil # 0
                 THEN Max(0, data.lockoutUntil - t)
                 ELSE 0
             remainingAttempts ==
                 Max(0, MAX_ATTEMPTS - data.consecutiveFailures)
         IN  Status(isLocked, lockoutRemainingMs, remainingAttempts)

\* the value getStatus() returns for the state data read at time t
getStatusResult(data, t) ==
    IF shouldGrantFreshStart(data.lastAttemptTime, t)
    THEN Status(FALSE, 0, MAX_ATTEMPTS)
    ELSE IF data.lockoutUntil # NULL /\ isLockoutExpired(data.lockoutUntil, t)
    THEN Status(FALSE, 0, 0)
    ELSE LET isLocked == data.lockoutUntil # NULL
             lockoutRemainingMs ==
                 IF data.lockoutUntil # NULL /\ data.lockoutUntil # 0
                 THEN Max(0, data.lockoutUntil - t)
                 ELSE 0
             remainingAttempts ==
                 IF isLocked THEN 0
                 ELSE Max(0, MAX_ATTEMPTS - data.consecutiveFailures)
         IN  Status(isLocked, lockoutRemainingMs, remainingAttempts)

\* the value getRemainingAttempts() returns for the state data read at time t
getRemainingAttemptsResult(data, t) ==
    IF shouldGrantFreshStart(data.lastAttemptTime, t)
    THEN MAX_ATTEMPTS
    ELSE IF data.lockoutUntil # NULL /\ ~isLockoutExpired(data.lockoutUntil, t)
    THEN 0
    ELSE Max(0, MAX_ATTEMPTS - data.consecutiveFailures)

\* variant: a lockout that is still active is kept as it is
recordFailureData_KeepActiveLockout(data, t) ==
    LET d1 == IF shouldGrantFreshStart(data.lastAttemptTime, t)
              THEN [data EXCEPT !.consecutiveFailures = 0, !.lockoutUntil = NULL]
              ELSE data
        d2 == IF d1.lockoutUntil # NULL /\ isLockoutExpired(d1.lockoutUntil, t)
              THEN [d1 EXCEPT !.lockoutUntil = NULL]
              ELSE d1
        d3 == [d2 EXCEPT !.consecutiveFailures = @ + 1, !.lastAttemptTime = t]
        backoffMs == calculateBackoffDuration(d3.consecutiveFailures)
    IN  IF d2.lockoutUntil # NULL
        THEN d3
        ELSE IF backoffMs > 0
        THEN [d3 EXCEPT !.lockoutUntil = t + backoffMs]
        ELSE [d3 EXCEPT !.lockoutUntil = NULL]

\* variant: the backoff is computed from the counter before the increment
recordFailureData_StaleBackoff(data, t) ==
    LET d1 == IF shouldGrantFreshStart(data.lastAttemptTime, t)
              THEN [data EXCEPT !.consecutiveFailures = 0, !.lockoutUntil = NULL]
              ELSE data
        d2 == IF d1.lockoutUntil # NULL /\ isLockoutExpired(d1.lockoutUntil, t)
              THEN [d1 EXCEPT !.lockoutUntil = NULL]
              ELSE d1
        backoffMs == calculateBackoffDuration(d2.consecutiveFailures)
        d3 == [d2 EXCEPT !.consecutiveFailures = @ + 1, !.lastAttemptTime = t]
    IN  IF backoffMs > 0
        THEN [d3 EXCEPT !.lockoutUntil = t + backoffMs]
        ELSE [d3 EXCEPT !.lockoutUntil = NULL]

\* variant: a failure during a lockout that is still active is not counted
recordFailureData_SkipWhenLocked(data, t) ==
    LET d1 == IF shouldGrantFreshStart(data.lastAttemptTime, t)
              THEN [data EXCEPT !.consecutiveFailures = 0, !.lockoutUntil = NULL]
              ELSE data
        d2 == IF d1.lockoutUntil # NULL /\ isLockoutExpired(d1.lockoutUntil, t)
              THEN [d1 EXCEPT !.lockoutUntil = NULL]
              ELSE d1
        d3 == [d2 EXCEPT !.consecutiveFailures = @ + 1, !.lastAttemptTime = t]
        backoffMs == calculateBackoffDuration(d3.consecutiveFailures)
    IN  IF d2.lockoutUntil # NULL
        THEN [d2 EXCEPT !.lastAttemptTime = t]
        ELSE IF backoffMs > 0
        THEN [d3 EXCEPT !.lockoutUntil = t + backoffMs]
        ELSE [d3 EXCEPT !.lockoutUntil = NULL]

\* variant: no cooldown check before the increment
recordFailureData_NoCooldown(data, t) ==
    LET d2 == IF data.lockoutUntil # NULL /\ isLockoutExpired(data.lockoutUntil, t)
              THEN [data EXCEPT !.lockoutUntil = NULL]
              ELSE data
        d3 == [d2 EXCEPT !.consecutiveFailures = @ + 1, !.lastAttemptTime = t]
        backoffMs == calculateBackoffDuration(d3.consecutiveFailures)
    IN  IF backoffMs > 0
        THEN [d3 EXCEPT !.lockoutUntil = t + backoffMs]
        ELSE [d3 EXCEPT !.lockoutUntil = NULL]

\* variant: a new lockout is added to the end of one that is still active
recordFailureData_StackedLockout(data, t) ==
    LET d1 == IF shouldGrantFreshStart(data.lastAttemptTime, t)
              THEN [data EXCEPT !.consecutiveFailures = 0, !.lockoutUntil = NULL]
              ELSE data
        d2 == IF d1.lockoutUntil # NULL /\ isLockoutExpired(d1.lockoutUntil, t)
              THEN [d1 EXCEPT !.lockoutUntil = NULL]
              ELSE d1
        d3 == [d2 EXCEPT !.consecutiveFailures = @ + 1, !.lastAttemptTime = t]
        backoffMs == calculateBackoffDuration(d3.consecutiveFailures)
        from == IF d2.lockoutUntil # NULL THEN d2.lockoutUntil ELSE t
    IN  IF backoffMs > 0
        THEN [d3 EXCEPT !.lockoutUntil = from + backoffMs]
        ELSE [d3 EXCEPT !.lockoutUntil = NULL]

\* the state recordFailure() hands to storage.add for the state data read at t
recordFailureData(data, t) ==
    LET d1 == IF shouldGrantFreshStart(data.lastAttemptTime, t)
              THEN [data EXCEPT !.consecutiveFailures = 0, !.lockoutUntil = NULL]
              ELSE data
        d2 == IF d1.lockoutUntil # NULL /\ isLockoutExpired(d1.lockoutUntil, t)
              THEN [d1 EXCEPT !.lockoutUntil = NULL]
              ELSE d1
        d3 == [d2 EXCEPT !.consecutiveFailures = @ + 1, !.lastAttemptTime = t]
        backoffMs == calculateBackoffDuration(d3.consecutiveFailures)
    IN  IF backoffMs > 0
        THEN [d3 EXCEPT !.lockoutUntil = t + backoffMs]
        ELSE [d3 EXCEPT !.lockoutUntil = NULL]

----------------------------------------------------------------------------
(* Bookkeeping of a call: what was called, on what, and what came of it *)

Called(name, a, getRejected, addRejected, adds, result) ==
    /\ op' = name
    /\ arg' = a
    /\ pre' = stored
    /\ storageBefore' = storage
    /\ readThrew' = getRejected
    /\ writeThrew' = addRejected
    /\ addCalls' = adds
    /\ ret' = result
    /\ afterReset' = ((op = "reset" /\ ret = Void) \/ (op = "tick" /\ afterReset))
    /\ UNCHANGED mgrVars
    /\ UNCHANGED << overlapVars, ipcVars >>

----------------------------------------------------------------------------
(* The methods of RateLimiter *)

\* variant: the argument is assigned before it is checked
SetStorage_AssignsFirst(s) ==
    /\ IF s = "null"
       THEN Called("setStorage", s, FALSE, FALSE, 0,
                   Threw("Storage must have get and add methods"))
       ELSE Called("setStorage", s, FALSE, FALSE, 0, Void)
    /\ storage' = s
    /\ UNCHANGED << stored, now, streak, streakAt >>

\* setStorage(storage): s is the argument, "null" standing for a falsy one
SetStorage(s) ==
    /\ IF s = "null"
       THEN /\ Called("setStorage", s, FALSE, FALSE, 0,
                      Threw("Storage must have get and add methods"))
            /\ UNCHANGED storage
       ELSE /\ Called("setStorage", s, FALSE, FALSE, 0, Void)
            /\ storage' = s
    /\ UNCHANGED << stored, now, streak, streakAt >>

\* calculateBackoffDuration(n) called from outside
CalculateBackoffDuration(n) ==
    /\ Called("calculateBackoffDuration", n, FALSE, FALSE, 0,
              Returned(calculateBackoffDuration(n)))
    /\ UNCHANGED << storage, stored, now, streak, streakAt >>

\* getData()
GetData(getRejects) ==
    /\ IF storage = "null"
       THEN Called("getData", NULL, FALSE, FALSE, 0,
                   Threw("Storage not initialized."))
       ELSE Called("getData", NULL, getRejects, FALSE, 0,
                   [kind |-> "data", data |-> getData(stored, getRejects, now)])
    /\ UNCHANGED << storage, stored, now, streak, streakAt >>

\* variant: getStatus() clears a lockout that has passed in the store
GetStatus_ClearsExpiredLockout(getRejects, addRejects) ==
    IF storage = "null"
    THEN /\ Called("getStatus", NULL, FALSE, FALSE, 0,
                   Threw("Storage not initialized."))
         /\ UNCHANGED << storage, stored, now, streak, streakAt >>
    ELSE LET data == getData(stored, getRejects, now) IN
         IF shouldGrantFreshStart(data.lastAttemptTime, now)
         THEN IF addRejects
              THEN /\ Called("getStatus", NULL, getRejects, TRUE, 1,
                             Threw("storage.add rejected"))
                   /\ UNCHANGED << storage, stored, now, streak, streakAt >>
              ELSE /\ Called("getStatus", NULL, getRejects, FALSE, 1,
                             Status(FALSE, 0, MAX_ATTEMPTS))
                   /\ stored' = DEFAULT_DATA
                   /\ streak' = 0
                   /\ streakAt' = NULL
                   /\ UNCHANGED << storage, now >>
         ELSE IF /\ data.lockoutUntil # NULL
                 /\ isLockoutExpired(data.lockoutUntil, now)
                 /\ ~addRejects
         THEN /\ Called("getStatus", NULL, getRejects, FALSE, 1,
                        getStatusResult(data, now))
              /\ stored' = [data EXCEPT !.lockoutUntil = NULL]
              /\ UNCHANGED << storage, now, streak, streakAt >>
         ELSE /\ Called("getStatus", NULL, getRejects, FALSE, 0,
                        getStatusResult(data, now))
              /\ UNCHANGED << storage, stored, now, streak, streakAt >>

\* getStatus(), with the reset() it awaits when a fresh start applies
GetStatus(getRejects, addRejects) ==
    IF storage = "null"
    THEN /\ Called("getStatus", NULL, FALSE, FALSE, 0,
                   Threw("Storage not initialized."))
         /\ UNCHANGED << storage, stored, now, streak, streakAt >>
    ELSE LET data == getData(stored, getRejects, now) IN
         IF shouldGrantFreshStart(data.lastAttemptTime, now)
         THEN IF addRejects
              THEN /\ Called("getStatus", NULL, getRejects, TRUE, 1,
                             Threw("storage.add rejected"))
                   /\ UNCHANGED << storage, stored, now, streak, streakAt >>
              ELSE /\ Called("getStatus", NULL, getRejects, FALSE, 1,
                             Status(FALSE, 0, MAX_ATTEMPTS))
                   /\ stored' = DEFAULT_DATA
                   /\ streak' = 0
                   /\ streakAt' = NULL
                   /\ UNCHANGED << storage, now >>
         ELSE /\ Called("getStatus", NULL, getRejects, FALSE, 0,
                        getStatusResult(data, now))
              /\ UNCHANGED << storage, stored, now, streak, streakAt >>

\* getRemainingAttempts()
GetRemainingAttempts(getRejects) ==
    /\ IF storage = "null"
       THEN Called("getRemainingAttempts", NULL, FALSE, FALSE, 0,
                   Threw("Storage not initialized."))
       ELSE LET data == getData(stored, getRejects, now) IN
            Called("getRemainingAttempts", NULL, getRejects, FALSE, 0,
                   Returned(getRemainingAttemptsResult(data, now)))
    /\ UNCHANGED << storage, stored, now, streak, streakAt >>

\* variant: a rejected storage.add is caught and ignored
RecordFailure_SwallowsWriteError(getRejects, addRejects) ==
    IF storage = "null"
    THEN /\ Called("recordFailure", NULL, FALSE, FALSE, 0,
                   Threw("Rate limiter unavailable - denying attempt"))
         /\ UNCHANGED << storage, stored, now, streak, streakAt >>
    ELSE LET data == getData(stored, getRejects, now)
             newData == recordFailureData(data, now)
         IN
         /\ \/ newData.consecutiveFailures <= MaxFailures
            \/ data.consecutiveFailures = BigCounter
         /\ IF addRejects
            THEN /\ Called("recordFailure", NULL, getRejects, TRUE, 1, Void)
                 /\ UNCHANGED << storage, stored, now, streak, streakAt >>
            ELSE /\ Called("recordFailure", NULL, getRejects, FALSE, 1, Void)
                 /\ stored' = newData
                 /\ streak' = IF /\ ~getRejects
                                 /\ streak >= 0
                                 /\ (streak = 0 \/ now - streakAt < 86400000)
                              THEN streak + 1
                              ELSE -1
                 /\ streakAt' = now
                 /\ UNCHANGED << storage, now >>

\* variant: recordFailure() lets the error of getData() through
RecordFailure_ReportsNotInitialized(getRejects, addRejects) ==
    IF storage = "null"
    THEN /\ Called("recordFailure", NULL, FALSE, FALSE, 0,
                   Threw("Storage not initialized."))
         /\ UNCHANGED << storage, stored, now, streak, streakAt >>
    ELSE LET data == getData(stored, getRejects, now)
             newData == recordFailureData(data, now)
         IN
         /\ \/ newData.consecutiveFailures <= MaxFailures
            \/ data.consecutiveFailures = BigCounter
         /\ IF addRejects
            THEN /\ Called("recordFailure", NULL, getRejects, TRUE, 1,
                           Threw("Failed to record attempt - denying access"))
                 /\ UNCHANGED << storage, stored, now, streak, streakAt >>
            ELSE /\ Called("recordFailure", NULL, getRejects, FALSE, 1, Void)
                 /\ stored' = newData
                 /\ streak' = IF /\ ~getRejects
                                 /\ streak >= 0
                                 /\ (streak = 0 \/ now - streakAt < 86400000)
                              THEN streak + 1
                              ELSE -1
                 /\ streakAt' = now
                 /\ UNCHANGED << storage, now >>

\* recordFailure()
RecordFailure(getRejects, addRejects) ==
    IF storage = "null"
    THEN /\ Called("recordFailure", NULL, FALSE, FALSE, 0,
                   Threw("Rate limiter unavailable - denying attempt"))
         /\ UNCHANGED << storage, stored, now, streak, streakAt >>
    ELSE LET data == getData(stored, getRejects, now)
             newData == recordFailureData(data, now)
         IN
         /\ \/ newData.consecutiveFailures <= MaxFailures
            \/ data.consecutiveFailures = BigCounter
         /\ IF addRejects
            THEN /\ Called("recordFailure", NULL, getRejects, TRUE, 1,
                           Threw("Failed to record attempt - denying access"))
                 /\ UNCHANGED << storage, stored, now, streak, streakAt >>
            ELSE /\ Called("recordFailure", NULL, getRejects, FALSE, 1, Void)
                 /\ stored' = newData
                 /\ streak' = IF /\ ~getRejects
                                 /\ streak >= 0
                                 /\ (streak = 0 \/ now - streakAt < 86400000)
                              THEN streak + 1
                              ELSE -1
                 /\ streakAt' = now
                 /\ UNCHANGED << storage, now >>

\* variant: reset() clears the counter and the lockout of the stored state
\* and keeps its lastAttemptTime
Reset_KeepsLastAttempt(addRejects) ==
    IF storage = "null"
    THEN /\ Called("reset", NULL, FALSE, FALSE, 0, Threw("TypeError"))
         /\ UNCHANGED << storage, stored, now, streak, streakAt >>
    ELSE IF addRejects
    THEN /\ Called("reset", NULL, FALSE, TRUE, 1, Threw("storage.add rejected"))
         /\ UNCHANGED << storage, stored, now, streak, streakAt >>
    ELSE /\ Called("reset", NULL, FALSE, FALSE, 1, Void)
         /\ stored' = IF IsAbsent(stored) THEN DEFAULT_DATA
                      ELSE [stored EXCEPT !.consecutiveFailures = 0,
                                          !.lockoutUntil = NULL]
         /\ streak' = 0
         /\ streakAt' = NULL
         /\ UNCHANGED << storage, now >>

\* reset(): with no storage bound, this.storage.add is a TypeError
Reset(addRejects) ==
    IF storage = "null"
    THEN /\ Called("reset", NULL, FALSE, FALSE, 0, Threw("TypeError"))
         /\ UNCHANGED << storage, stored, now, streak, streakAt >>
    ELSE IF addRejects
    THEN /\ Called("reset", NULL, FALSE, TRUE, 1, Threw("storage.add rejected"))
         /\ UNCHANGED << storage, stored, now, streak, streakAt >>
    ELSE /\ Called("reset", NULL, FALSE, FALSE, 1, Void)
         /\ stored' = DEFAULT_DATA
         /\ streak' = 0
         /\ streakAt' = NULL
         /\ UNCHANGED << storage, now >>

\* the clock advances between two calls; the record of the last call is
\* dropped, so that a call is always observed at the instant it was made
Tick(d) ==
    /\ (now + d - T0) % 86400000 <= MaxMinutes * 60000
    /\ (now + d - T0) \div 86400000 <= MaxDays
    /\ now' = now + d
    /\ op' = "tick"
    /\ arg' = d
    /\ pre' = stored
    /\ storageBefore' = storage
    /\ readThrew' = FALSE
    /\ writeThrew' = FALSE
    /\ addCalls' = 0
    /\ ret' = [kind |-> "none"]
    /\ afterReset' = ((op = "reset" /\ ret = Void) \/ (op = "tick" /\ afterReset))
    /\ UNCHANGED << storage, stored, streak, streakAt >>
    /\ UNCHANGED mgrVars
    /\ UNCHANGED << overlapVars, ipcVars >>

----------------------------------------------------------------------------
(* The master password manager, specification section 4.2.  The crypto     *)
(* collaborators are ideal: a hash determines its password and salt, and a *)
(* ciphertext opens under the hash and nonce it was made with and under no *)
(* other.                                                                  *)

Passwords == { "p1", "p2" }

Keys == { "k1", "k2" }

\* what the random source yields for one hashPassword and one encryption
Entropy == { [salt |-> "s1", nonce |-> "n1"], [salt |-> "s2", nonce |-> "n2"] }

\* the store write that rejects during a call, if any
StoreFaults == { "none", "vaultsAdd", "encryptionAdd" }

\* wrong passwords recorded in one run of the manager
MaxWrongPasswords == 5

NoRecord == [absent |-> "undefined"]

Success == [kind |-> "success"]

Material(hashedPassword, salt, ciphertext, nonce) ==
    [kind |-> "material", hashedPassword |-> hashedPassword, salt |-> salt,
     ciphertext |-> ciphertext, nonce |-> nonce]

\* hashPassword(password) with the salt it drew
hashPassword(password, salt) == [password |-> password, salt |-> salt]

\* getDecryptionKey({ salt, password })
getDecryptionKey(salt, password) == hashPassword(password, salt)

\* constantTimeHashCompare(a, b)
constantTimeHashCompare(a, b) == a = b

\* encryptVaultWithKey(hashedPassword, key) with the nonce it drew
encryptVaultWithKey(hashedPassword, key, nonce) ==
    [key |-> key, under |-> hashedPassword, nonce |-> nonce]

\* decryptVaultKey({ ciphertext, nonce, hashedPassword }): the key, or
\* undefined
decryptVaultKey(ciphertext, nonce, hashedPassword) ==
    IF ciphertext.under = hashedPassword /\ ciphertext.nonce = nonce
    THEN ciphertext.key
    ELSE "undefined"

\* the two projections of the MasterPasswordRecord
MasterEncryptionRecord(ciphertext, nonce, salt, hashedPassword) ==
    [ciphertext |-> ciphertext, nonce |-> nonce, salt |-> salt,
     hashedPassword |-> hashedPassword]

MasterPasswordRecord(ciphertext, nonce, salt) ==
    [ciphertext |-> ciphertext, nonce |-> nonce, salt |-> salt]

BundleFields == { "ciphertext", "nonce", "hashedPassword" }

\* credential bundles handed to initWithCredentials; present holds the
\* fields the bundle has
Bundles ==
    [ciphertext : { encryptVaultWithKey(hashPassword("p1", "s1"), "k1", "n1") },
     nonce : { "n1", "n2" },
     hashedPassword : { hashPassword("p1", "s1"), hashPassword("p2", "s1") },
     present : { BundleFields, BundleFields \ { "ciphertext" },
                 BundleFields \ { "nonce" },
                 BundleFields \ { "hashedPassword" }, {} }]

ManagerState ==
    [encryptionInitialized |-> encryptionInitialized,
     vaultsInitialized |-> vaultsInitialized,
     vaultsKey |-> vaultsKey,
     masterEncryption |-> masterEncryption,
     masterPassword |-> masterPassword]

\* no master password yet, no store open
ManagerInit ==
    /\ encryptionInitialized = FALSE
    /\ vaultsInitialized = FALSE
    /\ vaultsKey = "none"
    /\ masterEncryption = NoRecord
    /\ masterPassword = NoRecord
    /\ calls = << >>
    /\ mgrPre = [encryptionInitialized |-> FALSE, vaultsInitialized |-> FALSE,
                 vaultsKey |-> "none", masterEncryption |-> NoRecord,
                 masterPassword |-> NoRecord]
    /\ created = "none"

\* number of calls of rateLimitRecordFailure among the collaborator calls
RecordFailureCalls(collaborators) ==
    Cardinality({ i \in DOMAIN collaborators :
                      collaborators[i] = "rateLimitRecordFailure" })

ManagerCalled(name, a, collaborators, result) ==
    /\ op' = name
    /\ arg' = a
    /\ pre' = stored
    /\ storageBefore' = storage
    /\ readThrew' = FALSE
    /\ writeThrew' = FALSE
    /\ addCalls' = RecordFailureCalls(collaborators)
    /\ ret' = result
    /\ afterReset' = FALSE
    /\ calls' = collaborators
    /\ mgrPre' = ManagerState
    /\ UNCHANGED << storage, now >>
    /\ UNCHANGED << overlapVars, ipcVars >>

\* appDeps.rateLimitRecordFailure(): recordFailure() of the rate limiter
RateLimitRecordFailure ==
    LET newData == recordFailureData(getData(stored, FALSE, now), now)
    IN  /\ newData.consecutiveFailures <= MaxWrongPasswords
        /\ stored' = newData
        /\ streak' = IF streak >= 0 /\ (streak = 0 \/ now - streakAt < 86400000)
                     THEN streak + 1
                     ELSE -1
        /\ streakAt' = now

RateLimiterUntouched == UNCHANGED << stored, streak, streakAt >>

\* variant: the record with the verification hash is written to both stores
Persist_HashInBothStores(ciphertext, nonce, salt, hashedPassword, fault) ==
    IF fault = "vaultsAdd"
    THEN UNCHANGED << masterEncryption, masterPassword >>
    ELSE /\ masterEncryption' =
                MasterEncryptionRecord(ciphertext, nonce, salt, hashedPassword)
         /\ IF fault = "encryptionAdd"
            THEN UNCHANGED masterPassword
            ELSE masterPassword' =
                     MasterEncryptionRecord(ciphertext, nonce, salt,
                                            hashedPassword)

\* vaultsAdd('masterEncryption', ...) and then encryptionAdd('masterPassword',
\* ...); a write that rejects ends the call
Persist(ciphertext, nonce, salt, hashedPassword, fault) ==
    IF fault = "vaultsAdd"
    THEN UNCHANGED << masterEncryption, masterPassword >>
    ELSE /\ masterEncryption' =
                MasterEncryptionRecord(ciphertext, nonce, salt, hashedPassword)
         /\ IF fault = "encryptionAdd"
            THEN UNCHANGED masterPassword
            ELSE masterPassword' = MasterPasswordRecord(ciphertext, nonce, salt)

PersistCalls(fault) ==
    IF fault = "vaultsAdd" THEN << "vaultsAdd" >>
    ELSE << "vaultsAdd", "encryptionAdd" >>

\* createMasterPassword({ passwordBase64 })
CreateMasterPassword(passwordBase64, key, random, fault) ==
    LET hashedPassword == hashPassword(passwordBase64, random.salt)
        ciphertext == encryptVaultWithKey(hashedPassword, key, random.nonce)
        vaultKey == decryptVaultKey(ciphertext, random.nonce, hashedPassword)
    IN  /\ encryptionInitialized' = TRUE
        /\ vaultsInitialized' = TRUE
        /\ vaultsKey' = vaultKey
        /\ Persist(ciphertext, random.nonce, random.salt, hashedPassword, fault)
        /\ created' = IF fault = "none" THEN passwordBase64 ELSE "none"
        /\ ManagerCalled("createMasterPassword", passwordBase64,
               << "encryptionInit", "hashPassword",
                  "encryptVaultKeyWithHashedPassword", "decryptVaultKey",
                  "masterVaultInit" >> \o PersistCalls(fault),
               IF fault = "none"
               THEN Material(hashedPassword, random.salt, ciphertext,
                             random.nonce)
               ELSE Threw(fault))
        /\ RateLimiterUntouched

\* variant: the vault key is decrypted on the open-vault path as well
InitWithPassword_DecryptsWhenOpen(passwordBase64) ==
    IF vaultsInitialized
    THEN /\ ~IsAbsent(masterEncryption)
         /\ LET derived ==
                    getDecryptionKey(masterEncryption.salt, passwordBase64)
            IN  ManagerCalled("initWithPassword", passwordBase64,
                    << "vaultsGet", "getDecryptionKey", "decryptVaultKey",
                       "constantTimeHashCompare" >>,
                    IF constantTimeHashCompare(
                           masterEncryption.hashedPassword, derived)
                    THEN Success
                    ELSE Threw("Provided credentials do not match existing master encryption"))
         /\ RateLimiterUntouched
         /\ UNCHANGED << encryptionInitialized, vaultsInitialized, vaultsKey,
                         masterEncryption, masterPassword, created >>
    ELSE /\ ~IsAbsent(masterPassword)
         /\ LET derived == getDecryptionKey(masterPassword.salt, passwordBase64)
                vaultKey == decryptVaultKey(masterPassword.ciphertext,
                                            masterPassword.nonce, derived)
            IN  IF vaultKey = "undefined"
                THEN /\ RateLimitRecordFailure
                     /\ ManagerCalled("initWithPassword", passwordBase64,
                            << "encryptionGet", "getDecryptionKey",
                               "decryptVaultKey", "rateLimitRecordFailure" >>,
                            Threw("Error decrypting vault key"))
                     /\ UNCHANGED << vaultsInitialized, vaultsKey >>
                ELSE /\ RateLimiterUntouched
                     /\ ManagerCalled("initWithPassword", passwordBase64,
                            << "encryptionGet", "getDecryptionKey",
                               "decryptVaultKey", "masterVaultInit" >>,
                            Success)
                     /\ vaultsInitialized' = TRUE
                     /\ vaultsKey' = vaultKey
         /\ UNCHANGED << encryptionInitialized, masterEncryption,
                         masterPassword, created >>

\* variant: the vault store is initialized with whatever the decryption
\* yields
InitWithPassword_OpensBeforeDecrypting(passwordBase64) ==
    IF vaultsInitialized
    THEN /\ ~IsAbsent(masterEncryption)
         /\ LET derived ==
                    getDecryptionKey(masterEncryption.salt, passwordBase64)
            IN  ManagerCalled("initWithPassword", passwordBase64,
                    << "vaultsGet", "getDecryptionKey",
                       "constantTimeHashCompare" >>,
                    IF constantTimeHashCompare(
                           masterEncryption.hashedPassword, derived)
                    THEN Success
                    ELSE Threw("Provided credentials do not match existing master encryption"))
         /\ RateLimiterUntouched
         /\ UNCHANGED << encryptionInitialized, vaultsInitialized, vaultsKey,
                         masterEncryption, masterPassword, created >>
    ELSE /\ ~IsAbsent(masterPassword)
         /\ LET derived == getDecryptionKey(masterPassword.salt, passwordBase64)
                vaultKey == decryptVaultKey(masterPassword.ciphertext,
                                            masterPassword.nonce, derived)
            IN  IF vaultKey = "undefined"
                THEN /\ RateLimitRecordFailure
                     /\ ManagerCalled("initWithPassword", passwordBase64,
                            << "encryptionGet", "getDecryptionKey",
                               "decryptVaultKey", "rateLimitRecordFailure" >>,
                            Threw("Error decrypting vault key"))
                     /\ vaultsInitialized' = TRUE
                     /\ vaultsKey' = vaultKey
                ELSE /\ RateLimiterUntouched
                     /\ ManagerCalled("initWithPassword", passwordBase64,
                            << "encryptionGet", "getDecryptionKey",
                               "decryptVaultKey", "masterVaultInit" >>,
                            Success)
                     /\ vaultsInitialized' = TRUE
                     /\ vaultsKey' = vaultKey
         /\ UNCHANGED << encryptionInitialized, masterEncryption,
                         masterPassword, created >>

\* variant: a call made while the rate limiter reports a lockout is rejected
InitWithPassword_RejectsWhenLocked(passwordBase64) ==
    IF getStatusResult(getData(stored, FALSE, now), now).isLocked
    THEN /\ ManagerCalled("initWithPassword", passwordBase64, << >>,
                Threw("Too many failed attempts"))
         /\ RateLimiterUntouched
         /\ UNCHANGED << encryptionInitialized, vaultsInitialized, vaultsKey,
                         masterEncryption, masterPassword, created >>
    ELSE
        IF vaultsInitialized
        THEN /\ ~IsAbsent(masterEncryption)
             /\ LET derived ==
                        getDecryptionKey(masterEncryption.salt, passwordBase64)
                IN  ManagerCalled("initWithPassword", passwordBase64,
                        << "vaultsGet", "getDecryptionKey",
                           "constantTimeHashCompare" >>,
                        IF constantTimeHashCompare(
                               masterEncryption.hashedPassword, derived)
                        THEN Success
                        ELSE Threw("Provided credentials do not match existing master encryption"))
             /\ RateLimiterUntouched
             /\ UNCHANGED << encryptionInitialized, vaultsInitialized, vaultsKey,
                             masterEncryption, masterPassword, created >>
        ELSE /\ ~IsAbsent(masterPassword)
             /\ LET derived == getDecryptionKey(masterPassword.salt, passwordBase64)
                    vaultKey == decryptVaultKey(masterPassword.ciphertext,
                                                masterPassword.nonce, derived)
                IN  IF vaultKey = "undefined"
                    THEN /\ RateLimitRecordFailure
                         /\ ManagerCalled("initWithPassword", passwordBase64,
                                << "encryptionGet", "getDecryptionKey",
                                   "decryptVaultKey", "rateLimitRecordFailure" >>,
                                Threw("Error decrypting vault key"))
                         /\ UNCHANGED << vaultsInitialized, vaultsKey >>
                    ELSE /\ RateLimiterUntouched
                         /\ ManagerCalled("initWithPassword", passwordBase64,
                                << "encryptionGet", "getDecryptionKey",
                                   "decryptVaultKey", "masterVaultInit" >>,
                                Success)
                         /\ vaultsInitialized' = TRUE
                         /\ vaultsKey' = vaultKey
             /\ UNCHANGED << encryptionInitialized, masterEncryption,
                             masterPassword, created >>

\* initWithPassword({ passwordBase64 }); what it does when the record it
\* fetches is absent is not specified, and is left out
InitWithPassword(passwordBase64) ==
    IF vaultsInitialized
    THEN /\ ~IsAbsent(masterEncryption)
         /\ LET derived ==
                    getDecryptionKey(masterEncryption.salt, passwordBase64)
            IN  ManagerCalled("initWithPassword", passwordBase64,
                    << "vaultsGet", "getDecryptionKey",
                       "constantTimeHashCompare" >>,
                    IF constantTimeHashCompare(
                           masterEncryption.hashedPassword, derived)
                    THEN Success
                    ELSE Threw("Provided credentials do not match existing master encryption"))
         /\ RateLimiterUntouched
         /\ UNCHANGED << encryptionInitialized, vaultsInitialized, vaultsKey,
                         masterEncryption, masterPassword, created >>
    ELSE /\ ~IsAbsent(masterPassword)
         /\ LET derived == getDecryptionKey(masterPassword.salt, passwordBase64)
                vaultKey == decryptVaultKey(masterPassword.ciphertext,
                                            masterPassword.nonce, derived)
            IN  IF vaultKey = "undefined"
                THEN /\ RateLimitRecordFailure
                     /\ ManagerCalled("initWithPassword", passwordBase64,
                            << "encryptionGet", "getDecryptionKey",
                               "decryptVaultKey", "rateLimitRecordFailure" >>,
                            Threw("Error decrypting vault key"))
                     /\ UNCHANGED << vaultsInitialized, vaultsKey >>
                ELSE /\ RateLimiterUntouched
                     /\ ManagerCalled("initWithPassword", passwordBase64,
                            << "encryptionGet", "getDecryptionKey",
                               "decryptVaultKey", "masterVaultInit" >>,
                            Success)
                     /\ vaultsInitialized' = TRUE
                     /\ vaultsKey' = vaultKey
         /\ UNCHANGED << encryptionInitialized, masterEncryption,
                         masterPassword, created >>

\* variant: the vault key is decrypted before currentPassword is verified
UpdateMasterPassword_DecryptsBeforeVerifying(currentPassword, newPassword, random, fault) ==
    /\ vaultsInitialized
    /\ ~IsAbsent(masterEncryption)
    /\ LET derived == getDecryptionKey(masterEncryption.salt, currentPassword)
           passwords == [currentPassword |-> currentPassword,
                         newPassword |-> newPassword]
           vaultKey == decryptVaultKey(masterEncryption.ciphertext,
                                       masterEncryption.nonce,
                                       masterEncryption.hashedPassword)
           hashedPassword == hashPassword(newPassword, random.salt)
           ciphertext == encryptVaultWithKey(hashedPassword, vaultKey,
                                             random.nonce)
       IN  IF ~constantTimeHashCompare(masterEncryption.hashedPassword, derived)
           THEN /\ ManagerCalled("updateMasterPassword", passwords,
                       << "vaultsGet", "decryptVaultKey", "getDecryptionKey",
                          "constantTimeHashCompare" >>,
                       Threw("Invalid password"))
                /\ UNCHANGED << masterEncryption, masterPassword, created >>
           ELSE /\ ManagerCalled("updateMasterPassword", passwords,
                       << "vaultsGet", "getDecryptionKey",
                          "constantTimeHashCompare", "decryptVaultKey",
                          "hashPassword", "encryptVaultWithKey" >>
                           \o PersistCalls(fault),
                       IF fault = "none"
                       THEN Material(hashedPassword, random.salt, ciphertext,
                                     random.nonce)
                       ELSE Threw(fault))
                /\ Persist(ciphertext, random.nonce, random.salt,
                           hashedPassword, fault)
                /\ created' = "none"
    /\ RateLimiterUntouched
    /\ UNCHANGED << encryptionInitialized, vaultsInitialized, vaultsKey >>

\* variant: the old ciphertext is persisted next to the new hash and salt
UpdateMasterPassword_KeepsOldWrapping(currentPassword, newPassword, random, fault) ==
    /\ vaultsInitialized
    /\ ~IsAbsent(masterEncryption)
    /\ LET derived == getDecryptionKey(masterEncryption.salt, currentPassword)
           passwords == [currentPassword |-> currentPassword,
                         newPassword |-> newPassword]
           vaultKey == decryptVaultKey(masterEncryption.ciphertext,
                                       masterEncryption.nonce,
                                       masterEncryption.hashedPassword)
           hashedPassword == hashPassword(newPassword, random.salt)
           ciphertext == masterEncryption.ciphertext
       IN  IF ~constantTimeHashCompare(masterEncryption.hashedPassword, derived)
           THEN /\ ManagerCalled("updateMasterPassword", passwords,
                       << "vaultsGet", "getDecryptionKey",
                          "constantTimeHashCompare" >>,
                       Threw("Invalid password"))
                /\ UNCHANGED << masterEncryption, masterPassword, created >>
           ELSE /\ ManagerCalled("updateMasterPassword", passwords,
                       << "vaultsGet", "getDecryptionKey",
                          "constantTimeHashCompare", "decryptVaultKey",
                          "hashPassword", "encryptVaultWithKey" >>
                           \o PersistCalls(fault),
                       IF fault = "none"
                       THEN Material(hashedPassword, random.salt, ciphertext,
                                     random.nonce)
                       ELSE Threw(fault))
                /\ Persist(ciphertext, random.nonce, random.salt,
                           hashedPassword, fault)
                /\ created' = "none"
    /\ RateLimiterUntouched
    /\ UNCHANGED << encryptionInitialized, vaultsInitialized, vaultsKey >>

\* updateMasterPassword({ newPassword, currentPassword }) on an open vault
\* store that holds a master password
UpdateMasterPassword(currentPassword, newPassword, random, fault) ==
    /\ vaultsInitialized
    /\ ~IsAbsent(masterEncryption)
    /\ LET derived == getDecryptionKey(masterEncryption.salt, currentPassword)
           passwords == [currentPassword |-> currentPassword,
                         newPassword |-> newPassword]
           vaultKey == decryptVaultKey(masterEncryption.ciphertext,
                                       masterEncryption.nonce,
                                       masterEncryption.hashedPassword)
           hashedPassword == hashPassword(newPassword, random.salt)
           ciphertext == encryptVaultWithKey(hashedPassword, vaultKey,
                                             random.nonce)
       IN  IF ~constantTimeHashCompare(masterEncryption.hashedPassword, derived)
           THEN /\ ManagerCalled("updateMasterPassword", passwords,
                       << "vaultsGet", "getDecryptionKey",
                          "constantTimeHashCompare" >>,
                       Threw("Invalid password"))
                /\ UNCHANGED << masterEncryption, masterPassword, created >>
           ELSE /\ ManagerCalled("updateMasterPassword", passwords,
                       << "vaultsGet", "getDecryptionKey",
                          "constantTimeHashCompare", "decryptVaultKey",
                          "hashPassword", "encryptVaultWithKey" >>
                           \o PersistCalls(fault),
                       IF fault = "none"
                       THEN Material(hashedPassword, random.salt, ciphertext,
                                     random.nonce)
                       ELSE Threw(fault))
                /\ Persist(ciphertext, random.nonce, random.salt,
                           hashedPassword, fault)
                /\ created' = "none"
    /\ RateLimiterUntouched
    /\ UNCHANGED << encryptionInitialized, vaultsInitialized, vaultsKey >>

\* variant: the encryption subsystem is initialized before the bundle is
\* validated
InitWithCredentials_InitsBeforeValidating(bundle) ==
    /\ LET init == IF encryptionInitialized THEN << >>
                   ELSE << "encryptionInit" >>
           vaultKey == decryptVaultKey(bundle.ciphertext, bundle.nonce,
                                       bundle.hashedPassword)
       IN  /\ encryptionInitialized' = TRUE
           /\ IF bundle.present # BundleFields
              THEN /\ ManagerCalled("initWithCredentials", bundle, init,
                          Threw("Missing required parameters"))
                   /\ UNCHANGED << vaultsInitialized, vaultsKey >>
              ELSE IF vaultKey = "undefined"
              THEN /\ ManagerCalled("initWithCredentials", bundle,
                          init \o << "decryptVaultKey" >>,
                          Threw("Error decrypting vault key"))
                   /\ UNCHANGED << vaultsInitialized, vaultsKey >>
              ELSE /\ ManagerCalled("initWithCredentials", bundle,
                          init \o << "decryptVaultKey", "masterVaultInit" >>,
                          Success)
                   /\ vaultsInitialized' = TRUE
                   /\ vaultsKey' = vaultKey
    /\ RateLimiterUntouched
    /\ UNCHANGED << masterEncryption, masterPassword, created >>

\* variant: a bundle that does not decrypt is recorded as a failure in the
\* rate limiter
InitWithCredentials_RecordsFailure(bundle) ==
    /\ IF bundle.present # BundleFields
       THEN /\ ManagerCalled("initWithCredentials", bundle, << >>,
                   Threw("Missing required parameters"))
            /\ RateLimiterUntouched
            /\ UNCHANGED << encryptionInitialized, vaultsInitialized,
                            vaultsKey >>
       ELSE LET vaultKey == decryptVaultKey(bundle.ciphertext, bundle.nonce,
                                            bundle.hashedPassword)
                init == IF encryptionInitialized THEN << >>
                        ELSE << "encryptionInit" >>
            IN  /\ encryptionInitialized' = TRUE
                /\ IF vaultKey = "undefined"
                   THEN /\ RateLimitRecordFailure
                        /\ ManagerCalled("initWithCredentials", bundle,
                               init \o << "decryptVaultKey",
                                          "rateLimitRecordFailure" >>,
                               Threw("Error decrypting vault key"))
                        /\ UNCHANGED << vaultsInitialized, vaultsKey >>
                   ELSE /\ RateLimiterUntouched
                        /\ ManagerCalled("initWithCredentials", bundle,
                               init \o << "decryptVaultKey",
                                          "masterVaultInit" >>,
                               Success)
                        /\ vaultsInitialized' = TRUE
                        /\ vaultsKey' = vaultKey
    /\ UNCHANGED << masterEncryption, masterPassword, created >>

\* initWithCredentials({ ciphertext, nonce, hashedPassword })
InitWithCredentials(bundle) ==
    /\ IF bundle.present # BundleFields
       THEN /\ ManagerCalled("initWithCredentials", bundle, << >>,
                   Threw("Missing required parameters"))
            /\ UNCHANGED << encryptionInitialized, vaultsInitialized,
                            vaultsKey >>
       ELSE LET vaultKey == decryptVaultKey(bundle.ciphertext, bundle.nonce,
                                            bundle.hashedPassword)
                init == IF encryptionInitialized THEN << >>
                        ELSE << "encryptionInit" >>
            IN  /\ encryptionInitialized' = TRUE
                /\ IF vaultKey = "undefined"
                   THEN /\ ManagerCalled("initWithCredentials", bundle,
                               init \o << "decryptVaultKey" >>,
                               Threw("Error decrypting vault key"))
                        /\ UNCHANGED << vaultsInitialized, vaultsKey >>
                   ELSE /\ ManagerCalled("initWithCredentials", bundle,
                               init \o << "decryptVaultKey",
                                          "masterVaultInit" >>,
                               Success)
                        /\ vaultsInitialized' = TRUE
                        /\ vaultsKey' = vaultKey
    /\ RateLimiterUntouched
    /\ UNCHANGED << masterEncryption, masterPassword, created >>

\* appDeps.closeVaultsInstance(): the vault store is closed; what it holds
\* stays on disk
CloseVaultsInstance ==
    /\ vaultsInitialized
    /\ vaultsInitialized' = FALSE
    /\ vaultsKey' = "none"
    /\ ManagerCalled("closeVaultsInstance", NULL, << >>, Void)
    /\ RateLimiterUntouched
    /\ UNCHANGED << encryptionInitialized, masterEncryption, masterPassword,
                    created >>

----------------------------------------------------------------------------
(* Overlapping calls.  recordFailure() and getStatus() are async: a call   *)
(* reads the store, and the storage.add it then issues lands later; the    *)
(* calls of another caller may run in between.  A call is split in two     *)
(* steps here: everything up to its storage.add, and that write landing.   *)

Callers == { "first", "second" }

\* recordFailure() calls made in a run of overlapping calls
MaxCalls == 3

Idle == [kind |-> "idle"]

AllIdle == \A c \in Callers : inFlight[c].kind = "idle"

\* recordFailure() calls whose write has not landed yet
Pending == Cardinality({ c \in Callers : inFlight[c].kind = "recordFailure" })

OverlapInit ==
    /\ inFlight = [c \in Callers |-> Idle]
    /\ completed = 0
    /\ restarted = FALSE

\* the record of a step of a call, and what a step leaves alone
Stepped(name, a, adds, result) ==
    /\ op' = name
    /\ arg' = a
    /\ pre' = stored
    /\ storageBefore' = storage
    /\ readThrew' = FALSE
    /\ writeThrew' = FALSE
    /\ addCalls' = adds
    /\ ret' = result
    /\ afterReset' = FALSE
    /\ UNCHANGED << storage, now, streak, streakAt >>
    /\ UNCHANGED mgrVars
    /\ UNCHANGED ipcVars

\* recordFailure() up to its storage.add: the read, the cooldown check and
\* the new state, computed from what the read returned
RecordFailureRead(c) ==
    /\ storage = "bound"
    /\ inFlight[c].kind = "idle"
    /\ completed + Pending < MaxCalls
    /\ LET data == getData(stored, FALSE, now)
       IN /\ inFlight' = [inFlight EXCEPT ![c] =
                  [kind |-> "recordFailure",
                   newData |-> recordFailureData(data, now)]]
          /\ restarted' =
                 (restarted \/ shouldGrantFreshStart(data.lastAttemptTime, now))
    /\ Stepped("recordFailure.get", c, 0, [kind |-> "none"])
    /\ UNCHANGED << stored, completed >>

\* the storage.add of recordFailure() lands and the call returns
RecordFailureWrite(c) ==
    /\ inFlight[c].kind = "recordFailure"
    /\ stored' = inFlight[c].newData
    /\ inFlight' = [d \in Callers |->
           IF d = c THEN Idle
           ELSE IF inFlight[d].kind = "getStatus"
                THEN [inFlight[d] EXCEPT !.overtaken = TRUE]
                ELSE inFlight[d]]
    /\ completed' = completed + 1
    /\ Stepped("recordFailure.add", c, 1, Void)
    /\ UNCHANGED restarted

\* getStatus() up to the reset() of its fresh-start branch (its other
\* branches write nothing and are the one step GetStatus)
GetStatusRead(c) ==
    /\ storage = "bound"
    /\ inFlight[c].kind = "idle"
    /\ shouldGrantFreshStart(getData(stored, FALSE, now).lastAttemptTime, now)
    /\ inFlight' = [inFlight EXCEPT ![c] =
           [kind |-> "getStatus", overtaken |-> FALSE]]
    /\ Stepped("getStatus.get", c, 0, [kind |-> "none"])
    /\ UNCHANGED << stored, completed, restarted >>

\* the storage.add of that reset() lands and getStatus() returns
GetStatusReset(c) ==
    /\ inFlight[c].kind = "getStatus"
    /\ stored' = DEFAULT_DATA
    /\ inFlight' = [inFlight EXCEPT ![c] = Idle]
    /\ restarted' = TRUE
    /\ Stepped("getStatus.reset",
               [caller |-> c, overtaken |-> inFlight[c].overtaken], 1,
               Status(FALSE, 0, MAX_ATTEMPTS))
    /\ UNCHANGED completed

----------------------------------------------------------------------------
(* The IPC endpoint of the worklet, app-ipc.js.  handleRpcCommand is the   *)
(* application core: what it does with req (reply, createRequestStream,    *)
(* stream.on, awaiting) is its choice, and each of these is an action.     *)

Events == { "data", "end", "error" }

\* a message: whether it parses as JSON, whether its data has a filePath,
\* and whether fs.readFileSync can read that file
Messages == [json : BOOLEAN, filePath : BOOLEAN, readable : BOOLEAN]

\* replies written while one request is handled
MaxReplies == 2

ReplyData == { "result", "error" }

NoRequest == [filePath |-> FALSE, readable |-> FALSE, via |-> "none"]

NoMicrotask ==
    [state |-> "none", during |-> "none", listeners |-> { },
     readThrew |-> FALSE, listenerThrew |-> FALSE]

IpcInit ==
    /\ transport = "none"
    /\ bareKit = FALSE
    /\ request = NoRequest
    /\ phase = "idle"
    /\ stream = "none"
    /\ listeners = { }
    /\ microtask = NoMicrotask
    /\ emitted = << >>
    /\ written = << >>
    /\ ipcError = "none"

IpcOpen == transport \in { "Pear.worker.pipe", "BareKit.IPC" }

\* the module is loaded: ipc is chosen (a module that reads BareKit.IPC where
\* BareKit is not defined fails to load)
LoadModule(isPearWorker, kit) ==
    /\ transport = "none"
    /\ IF isPearWorker
       THEN transport' = "Pear.worker.pipe" /\ bareKit' = kit /\ UNCHANGED ipcError
       ELSE IF kit
            THEN transport' = "BareKit.IPC" /\ bareKit' = TRUE /\ UNCHANGED ipcError
            ELSE transport' = "failed" /\ bareKit' = FALSE
                 /\ ipcError' = "ReferenceError"
    /\ UNCHANGED << request, phase, stream, listeners, microtask, emitted,
                    written >>
    /\ UNCHANGED << rlVars, mgrVars, overlapVars >>

\* ipc.on('data'): a message arrives on ipc, is parsed, and handleRpcCommand
\* is called with the req built for it.  Microtasks run before the next
\* message is delivered.
Data(message) ==
    /\ IpcOpen
    /\ phase = "idle"
    /\ microtask.state # "queued"
    /\ IF message.json
       THEN /\ request' = [filePath |-> message.filePath,
                           readable |-> message.readable, via |-> transport]
            /\ phase' = "running"
            /\ ipcError' = "none"
       ELSE /\ request' = NoRequest
            /\ phase' = "idle"
            /\ ipcError' = "SyntaxError"
    /\ stream' = "none"
    /\ listeners' = { }
    /\ microtask' = NoMicrotask
    /\ emitted' = << >>
    /\ written' = << >>
    /\ UNCHANGED << transport, bareKit >>
    /\ UNCHANGED << rlVars, mgrVars, overlapVars >>

\* req.reply(data); the handler's catch logs an exception the application
\* core lets through
Reply(data, caught) ==
    /\ IpcOpen
    /\ phase = "running"
    /\ Len(written) < MaxReplies
    /\ IF bareKit
       THEN /\ written' = Append(written, [channel |-> "BareKit.IPC", data |-> data])
            /\ UNCHANGED << phase, ipcError >>
       ELSE /\ ipcError' = "ReferenceError"
            /\ phase' = IF caught THEN "running" ELSE "idle"
            /\ UNCHANGED written
    /\ UNCHANGED << transport, bareKit, request, stream, listeners, microtask,
                    emitted >>
    /\ UNCHANGED << rlVars, mgrVars, overlapVars >>

\* req.createRequestStream(), called once for a request
CreateRequestStream ==
    /\ IpcOpen
    /\ phase = "running"
    /\ stream = "none"
    /\ IF request.filePath
       THEN /\ stream' = "created"
            /\ microtask' = [NoMicrotask EXCEPT !.state = "queued"]
       ELSE /\ stream' = "undefined"
            /\ UNCHANGED microtask
    /\ UNCHANGED << transport, bareKit, request, phase, listeners, emitted,
                    written, ipcError >>
    /\ UNCHANGED << rlVars, mgrVars, overlapVars >>

\* stream.on(event, cb): one listener per event
On(event) ==
    /\ IpcOpen
    /\ phase = "running"
    /\ stream = "created"
    /\ listeners' = listeners \cup { event }
    /\ UNCHANGED << transport, bareKit, request, phase, stream, microtask,
                    emitted, written, ipcError >>
    /\ UNCHANGED << rlVars, mgrVars, overlapVars >>

\* the application core awaits, resumes, and returns
Await ==
    /\ IpcOpen
    /\ phase = "running"
    /\ phase' = "suspended"
    /\ UNCHANGED << transport, bareKit, request, stream, listeners, microtask,
                    emitted, written, ipcError >>
    /\ UNCHANGED << rlVars, mgrVars, overlapVars >>

Resume ==
    /\ IpcOpen
    /\ phase = "suspended"
    /\ phase' = "running"
    /\ UNCHANGED << transport, bareKit, request, stream, listeners, microtask,
                    emitted, written, ipcError >>
    /\ UNCHANGED << rlVars, mgrVars, overlapVars >>

Finish ==
    /\ IpcOpen
    /\ phase = "running"
    /\ phase' = "idle"
    /\ UNCHANGED << transport, bareKit, request, stream, listeners, microtask,
                    emitted, written, ipcError >>
    /\ UNCHANGED << rlVars, mgrVars, overlapVars >>

\* the listener call throwsAt names throws, if it is made
MetaThrew(ls, throwsAt) == "data" \in ls /\ throwsAt = "data:meta"

\* fs.readFileSync is called, as the argument of the second data call, and
\* throws
ReadThrew(ls, readable, throwsAt) ==
    "data" \in ls /\ ~MetaThrew(ls, throwsAt) /\ ~readable

FileEmitted(ls, readable, throwsAt) ==
    "data" \in ls /\ ~MetaThrew(ls, throwsAt) /\ readable

EndEmitted(ls, readable, throwsAt) ==
    /\ "end" \in ls
    /\ ~MetaThrew(ls, throwsAt)
    /\ ~ReadThrew(ls, readable, throwsAt)
    /\ ~(FileEmitted(ls, readable, throwsAt) /\ throwsAt = "data:file")

ListenerThrew(ls, readable, throwsAt) ==
    \/ MetaThrew(ls, throwsAt)
    \/ FileEmitted(ls, readable, throwsAt) /\ throwsAt = "data:file"
    \/ EndEmitted(ls, readable, throwsAt) /\ throwsAt = "end"

\* variant: end is emitted after the catch as well
StreamEvents_EndInFinally(ls, readable, throwsAt) ==
    (IF "data" \in ls THEN << "data:meta" >> ELSE << >>)
    \o (IF FileEmitted(ls, readable, throwsAt) THEN << "data:file" >> ELSE << >>)
    \o (IF /\ "error" \in ls
           /\ \/ ReadThrew(ls, readable, throwsAt)
              \/ ListenerThrew(ls, readable, throwsAt)
        THEN << "error" >> ELSE << >>)
    \o (IF "end" \in ls THEN << "end" >> ELSE << >>)

\* the listener calls of the microtask: the try block and its catch
StreamEvents(ls, readable, throwsAt) ==
    (IF "data" \in ls THEN << "data:meta" >> ELSE << >>)
    \o (IF FileEmitted(ls, readable, throwsAt) THEN << "data:file" >> ELSE << >>)
    \o (IF EndEmitted(ls, readable, throwsAt) THEN << "end" >> ELSE << >>)
    \o (IF /\ "error" \in ls
           /\ \/ ReadThrew(ls, readable, throwsAt)
              \/ ListenerThrew(ls, readable, throwsAt)
        THEN << "error" >> ELSE << >>)

ThrowsAt == { "none", "data:meta", "data:file", "end" }

\* the queued microtask runs, once the code that queued it has returned to
\* the event loop
RunMicrotask(throwsAt) ==
    /\ microtask.state = "queued"
    /\ phase # "running"
    /\ emitted' = StreamEvents(listeners, request.readable, throwsAt)
    /\ microtask' =
           [state |-> "ran", during |-> phase, listeners |-> listeners,
            readThrew |-> ReadThrew(listeners, request.readable, throwsAt),
            listenerThrew |->
                ListenerThrew(listeners, request.readable, throwsAt)]
    /\ UNCHANGED << transport, bareKit, request, phase, stream, listeners,
                    written, ipcError >>
    /\ UNCHANGED << rlVars, mgrVars, overlapVars >>

\* ipc.on('close') and ipc.on('end'): the worklet exits
Close ==
    /\ IpcOpen
    /\ transport' = "closed"
    /\ UNCHANGED << bareKit, request, phase, stream, listeners, microtask,
                    emitted, written, ipcError >>
    /\ UNCHANGED << rlVars, mgrVars, overlapVars >>

----------------------------------------------------------------------------
(* Specifications *)

NoCall ==
    /\ op = "new"
    /\ arg = NULL
    /\ pre = stored
    /\ storageBefore = storage
    /\ readThrew = FALSE
    /\ writeThrew = FALSE
    /\ addCalls = 0
    /\ ret = [kind |-> "none"]
    /\ afterReset = FALSE
    /\ ManagerInit
    /\ OverlapInit
    /\ IpcInit

\* a new RateLimiter() over a store that holds nothing yet
Init ==
    /\ storage = "null"
    /\ stored = [absent |-> "null"]
    /\ now = T0
    /\ streak = 0
    /\ streakAt = NULL
    /\ NoCall

ArgSet == (-1 .. MaxArg) \cup { 1000 }

\* whether a call of storage.get or storage.add rejects: either way for the
\* store, always for a value that has no such method (a TypeError)
Rejects == IF storage = "invalid" THEN { TRUE } ELSE BOOLEAN

Next ==
    \/ \E s \in { "null", "bound", "invalid" } : SetStorage(s)
    \/ \E g \in Rejects : GetData(g)
    \/ \E g \in Rejects, a \in Rejects : GetStatus(g, a)
    \/ \E g \in Rejects : GetRemainingAttempts(g)
    \/ \E g \in Rejects, a \in Rejects : RecordFailure(g, a)
    \/ \E a \in Rejects : Reset(a)
    \/ \E d \in Deltas : Tick(d)

Spec == Init /\ [][Next]_vars

\* timestamps a store handed to setStorage may already hold
InitTimes == { 0, T0 - 60000, T0, T0 + 60000, T0 + 2 * 86400000 }

\* a RateLimiter bound to a store that holds any RateLimitState, or nothing
InitAny ==
    /\ storage = "bound"
    /\ stored \in NoValue \cup
           [consecutiveFailures : (0 .. MaxFailures) \cup { BigCounter },
            lockoutUntil : { NULL } \cup InitTimes,
            lastAttemptTime : { NULL } \cup InitTimes]
    /\ now = T0
    /\ streak = -1
    /\ streakAt = NULL
    /\ NoCall

SpecAny == InitAny /\ [][Next]_vars

\* calculateBackoffDuration applied to each argument of ArgSet; it reads and
\* writes no field of the RateLimiter
NextBackoff == \E n \in ArgSet : CalculateBackoffDuration(n)

SpecBackoff == Init /\ [][NextBackoff]_vars

\* a manager over a bound rate limiter, with no master password yet
InitMgr ==
    /\ storage = "bound"
    /\ stored = [absent |-> "undefined"]
    /\ now = T0
    /\ streak = 0
    /\ streakAt = NULL
    /\ NoCall

NextMgr ==
    \/ \E p \in Passwords, k \in Keys, r \in Entropy, f \in StoreFaults :
           CreateMasterPassword(p, k, r, f)
    \/ \E p \in Passwords : InitWithPassword(p)
    \/ \E c \in Passwords, n \in Passwords, r \in Entropy, f \in StoreFaults :
           UpdateMasterPassword(c, n, r, f)
    \/ \E b \in Bundles : InitWithCredentials(b)
    \/ CloseVaultsInstance

SpecMgr == InitMgr /\ [][NextMgr]_vars

\* two callers of a bound rate limiter whose store holds the default state
InitOverlap ==
    /\ storage = "bound"
    /\ stored = DEFAULT_DATA
    /\ now = T0
    /\ streak = -1
    /\ streakAt = NULL
    /\ NoCall

NextOverlap ==
    \/ \E c \in Callers : RecordFailureRead(c)
    \/ \E c \in Callers : RecordFailureWrite(c)
    \/ \E c \in Callers : GetStatusRead(c)
    \/ \E c \in Callers : GetStatusReset(c)
    \/ \E d \in Deltas : Tick(d)

SpecOverlap == InitOverlap /\ [][NextOverlap]_vars

NextIpc ==
    \/ \E w \in BOOLEAN, k \in BOOLEAN : LoadModule(w, k)
    \/ \E m \in Messages : Data(m)
    \/ \E d \in ReplyData, c \in BOOLEAN : Reply(d, c)
    \/ CreateRequestStream
    \/ \E e \in Events : On(e)
    \/ Await
    \/ Resume
    \/ Finish
    \/ \E t \in ThrowsAt : RunMicrotask(t)
    \/ Close

SpecIpc == Init /\ [][NextIpc]_vars

----------------------------------------------------------------------------
(* Properties *)

\* the RateLimitState the last call found in the store
PreData == IF IsAbsent(pre) THEN DEFAULT_DATA ELSE pre

\* a cooldown fresh start applied to the state the last call found
PreFresh ==
    /\ PreData.lastAttemptTime # NULL
    /\ now - PreData.lastAttemptTime >= 86400000

\* the last call ran against a bound storage whose read succeeded
ReadOk == storage = "bound" /\ ~readThrew

RECURSIVE DoubleFrom(_, _, _)
\* v doubled once per step from k to n, saturating at 24h
DoubleFrom(k, n, v) ==
    IF k >= n \/ v >= 86400000
    THEN Min(v, 86400000)
    ELSE DoubleFrom(k + 1, n, 2 * v)

(* C1: calculateBackoffDuration(n) is 0 for n < 5; for n >= 5 it is 120000 at
   n = 5, doubles with each further failure and saturates at 86400000; it
   touches no state and is non-decreasing in n. *)
C1_BackoffDuration ==
    op = "calculateBackoffDuration" =>
        /\ ret = Returned(IF arg < 5 THEN 0 ELSE DoubleFrom(5, arg, 120000))
        /\ \A m \in ArgSet :
               m <= arg => calculateBackoffDuration(m) <= ret.value
        /\ stored = pre
        /\ addCalls = 0

C1_Witness ==
    /\ op = "calculateBackoffDuration"
    /\ arg = 15
    /\ ret = Returned(86400000)

(* C2: from the default state, fault-free and with less than 24h between
   calls, getStatus() after 4 recorded failures reports unlocked with 1
   remaining attempt, and after the 5th, at the instant of that failure,
   reports locked, 0 remaining attempts and 120000 ms of lockout. *)
C2_FifthFailureLocks ==
    (op = "getStatus" /\ ReadOk /\ streak >= 0 /\ now - streakAt < 86400000) =>
        /\ streak = 4 =>
               /\ ret.kind = "status"
               /\ ret.isLocked = FALSE
               /\ ret.remainingAttempts = 1
        /\ (streak = 5 /\ now = streakAt) => ret = Status(TRUE, 120000, 0)

C2_Witness ==
    /\ op = "getStatus"
    /\ ReadOk
    /\ streak = 5
    /\ now = streakAt
    /\ ret = Status(TRUE, 120000, 0)

(* C3: with no fresh start, a successful recordFailure() on the stored state
   {c, l, t} persists exactly {c + 1, now + backoff(c + 1) or null, now},
   whether the previous lockout was absent, expired or still active. *)
C3_RecordFailurePersists ==
    (op = "recordFailure" /\ ret = Void /\ ReadOk /\ ~PreFresh) =>
        LET c == PreData.consecutiveFailures + 1
            b == calculateBackoffDuration(c)
        IN  stored = [consecutiveFailures |-> c,
                      lockoutUntil |-> IF b > 0 THEN now + b ELSE NULL,
                      lastAttemptTime |-> now]

C3_Witness ==
    /\ op = "recordFailure"
    /\ ret = Void
    /\ ReadOk
    /\ ~PreFresh
    /\ PreData.lockoutUntil # NULL
    /\ PreData.lockoutUntil > now
    /\ stored.consecutiveFailures = PreData.consecutiveFailures + 1

\* the stored lockout has passed and no fresh start applies
PreExpired ==
    /\ storage = "bound"
    /\ PreData.lockoutUntil # NULL
    /\ now >= PreData.lockoutUntil
    /\ ~PreFresh

(* C4: once the stored lockout has passed, and no fresh start applies,
   getStatus() reports unlocked with 0 ms and 0 remaining attempts and writes
   nothing; queries and the passing of time leave the stored state as it is,
   and the next recordFailure() continues from the stored counter. *)
C4_ExpiredLockoutKeepsCounter ==
    PreExpired =>
        /\ (op = "getStatus" /\ ~readThrew) =>
               /\ ret = Status(FALSE, 0, 0)
               /\ addCalls = 0
        /\ op \in { "getStatus", "getRemainingAttempts", "getData", "tick" } =>
               stored = pre
        /\ (op = "recordFailure" /\ ret = Void /\ ~readThrew) =>
               stored.consecutiveFailures = PreData.consecutiveFailures + 1

C4_Witness ==
    /\ PreExpired
    /\ op = "getStatus"
    /\ ~readThrew
    /\ PreData.consecutiveFailures >= 5
    /\ ret = Status(FALSE, 0, 0)
    /\ stored = pre

(* C5: when the stored lastAttemptTime is at least 24h old, getStatus()
   persists the default state and returns unlocked, 0 ms, 5 remaining
   attempts, whatever the counter and the lockout are; getRemainingAttempts()
   returns 5. *)
C5_CooldownFreshStart ==
    (ReadOk /\ PreFresh) =>
        /\ (op = "getStatus" /\ ~writeThrew) =>
               /\ ret = Status(FALSE, 0, 5)
               /\ addCalls = 1
               /\ stored = [consecutiveFailures |-> 0, lockoutUntil |-> NULL,
                            lastAttemptTime |-> NULL]
        /\ op = "getRemainingAttempts" => ret = Returned(5)

C5_Witness ==
    /\ ReadOk
    /\ PreFresh
    /\ op = "getStatus"
    /\ PreData.lockoutUntil # NULL
    /\ PreData.lockoutUntil > now
    /\ PreData.consecutiveFailures > 0
    /\ ret = Status(FALSE, 0, 5)
    /\ stored = DEFAULT_DATA

(* C6: when a fresh start applies, a successful recordFailure() persists
   {1, null, now}, which is what recordFailure() persists on the state
   reset() leaves. *)
C6_RecordFailureAfterCooldown ==
    (op = "recordFailure" /\ ret = Void /\ ReadOk /\ PreFresh) =>
        /\ stored = [consecutiveFailures |-> 1, lockoutUntil |-> NULL,
                     lastAttemptTime |-> now]
        /\ stored = recordFailureData(DEFAULT_DATA, now)

C6_Witness ==
    /\ op = "recordFailure"
    /\ ret = Void
    /\ ReadOk
    /\ PreFresh
    /\ PreData.consecutiveFailures >= 5
    /\ PreData.lockoutUntil # NULL
    /\ stored.consecutiveFailures = 1

\* the last call found a state whose lastAttemptTime is null
PreNeverAttempted == ReadOk /\ PreData.lastAttemptTime = NULL

(* C7 as stated: with a null lastAttemptTime, getStatus() writes nothing and
   reports max(0, 5 - consecutiveFailures) remaining attempts,
   getRemainingAttempts() reports the same, and recordFailure() increments
   the stored counter. *)
C7_AsStated ==
    PreNeverAttempted =>
        /\ op = "getStatus" =>
               /\ addCalls = 0
               /\ ret.remainingAttempts =
                      Max(0, 5 - PreData.consecutiveFailures)
        /\ op = "getRemainingAttempts" =>
               ret.value = Max(0, 5 - PreData.consecutiveFailures)
        /\ (op = "recordFailure" /\ ret = Void) =>
               stored.consecutiveFailures = PreData.consecutiveFailures + 1

(* C7: with a null lastAttemptTime no fresh start happens: getStatus() writes
   nothing and reports max(0, 5 - consecutiveFailures) remaining attempts
   when lockoutUntil is null and 0 when it is not; getRemainingAttempts()
   reports max(0, 5 - consecutiveFailures) unless lockoutUntil is non-null and
   still ahead, when it reports 0; recordFailure() increments the stored
   counter. *)
C7_NullLastAttemptNoFreshStart ==
    PreNeverAttempted =>
        /\ op = "getStatus" =>
               /\ addCalls = 0
               /\ stored = pre
               /\ ret.remainingAttempts =
                      IF PreData.lockoutUntil = NULL
                      THEN Max(0, 5 - PreData.consecutiveFailures)
                      ELSE 0
        /\ op = "getRemainingAttempts" =>
               ret.value =
                   IF PreData.lockoutUntil # NULL /\ now < PreData.lockoutUntil
                   THEN 0
                   ELSE Max(0, 5 - PreData.consecutiveFailures)
        /\ (op = "recordFailure" /\ ret = Void) =>
               stored.consecutiveFailures = PreData.consecutiveFailures + 1

C7_Witness ==
    /\ PreNeverAttempted
    /\ op = "getStatus"
    /\ now >= T0 + 86400000
    /\ PreData.consecutiveFailures = 3
    /\ PreData.lockoutUntil = NULL
    /\ ret = Status(FALSE, 0, 2)

(* C8: getRemainingAttempts() returns what getStatus() reports as
   remainingAttempts for the same state returned by getData() at the same
   time, and never writes. *)
C8_SameAsGetStatus ==
    (op = "getRemainingAttempts" /\ storage = "bound") =>
        /\ ret.kind = "value"
        /\ ret.value =
               getStatusResult(getData(pre, readThrew, now), now).remainingAttempts
        /\ addCalls = 0
        /\ stored = pre

(* C9: a reset() whose write succeeds persists exactly {0, null, null} from
   every prior state, a second reset() changes nothing, and the getStatus()
   after it reports unlocked, 0 ms, 5 remaining attempts. *)
C9_ResetIdempotent ==
    /\ (op = "reset" /\ storage = "bound" /\ ~writeThrew) =>
           /\ ret = Void
           /\ addCalls = 1
           /\ stored = [consecutiveFailures |-> 0, lockoutUntil |-> NULL,
                        lastAttemptTime |-> NULL]
    /\ (op = "reset" /\ ret = Void /\ afterReset) => stored = pre
    /\ (op = "getStatus" /\ afterReset /\ ~readThrew) =>
           /\ ret = Status(FALSE, 0, 5)
           /\ stored = pre

C9_Witness ==
    /\ op = "getStatus"
    /\ afterReset
    /\ ~readThrew
    /\ ret = Status(FALSE, 0, 5)
    /\ stored = DEFAULT_DATA

(* C10: with a bound storage getData() never throws and never writes: it
   returns the stored record, the default {0, null, null} when the store
   holds nothing, and {1, now, now}, an expired lockout, when the read
   throws. *)
C10_GetDataNeverFails ==
    (op = "getData" /\ storage = "bound") =>
        /\ ret.kind = "data"
        /\ addCalls = 0
        /\ stored = pre
        /\ ret.data =
               IF readThrew
               THEN [consecutiveFailures |-> 1, lockoutUntil |-> now,
                     lastAttemptTime |-> now]
               ELSE IF IsAbsent(pre)
               THEN [consecutiveFailures |-> 0, lockoutUntil |-> NULL,
                     lastAttemptTime |-> NULL]
               ELSE pre
        /\ readThrew => isLockoutExpired(ret.data.lockoutUntil, now)

C10_Witness ==
    /\ op = "getData"
    /\ storage = "bound"
    /\ readThrew
    /\ ~IsAbsent(pre)
    /\ pre.consecutiveFailures >= 5
    /\ ret.kind = "data"
    /\ ret.data.consecutiveFailures = 1

(* C11: when the storage read throws, getStatus() returns unlocked, 0 ms and
   0 remaining attempts and makes no write, whatever the store holds. *)
C11_GetStatusOnReadFailure ==
    (op = "getStatus" /\ storage # "null" /\ readThrew) =>
        /\ ret = Status(FALSE, 0, 0)
        /\ addCalls = 0
        /\ stored = pre

C11_Witness ==
    /\ op = "getStatus"
    /\ storage = "bound"
    /\ readThrew
    /\ PreData.consecutiveFailures >= 5
    /\ PreData.lockoutUntil # NULL
    /\ PreData.lockoutUntil > now
    /\ ret = Status(FALSE, 0, 0)

(* C12: when storage.add fails during recordFailure(), the call fails with
   'Failed to record attempt - denying access' and the store holds what it
   held before the call. *)
C12_WriteFailureDenies ==
    (op = "recordFailure" /\ writeThrew) =>
        /\ ret = Threw("Failed to record attempt - denying access")
        /\ stored = pre

C12_Witness ==
    /\ op = "recordFailure"
    /\ storage = "bound"
    /\ writeThrew
    /\ ~readThrew
    /\ PreData.consecutiveFailures >= 4
    /\ ret = Threw("Failed to record attempt - denying access")
    /\ stored = pre

(* C13: whenever the read of the rate-limit state fails, recordFailure() fails
   with 'Rate limiter unavailable - denying attempt' and persists nothing. *)
C13_ReadFailureDenies ==
    (op = "recordFailure" /\ storage # "null" /\ readThrew) =>
        /\ ret = Threw("Rate limiter unavailable - denying attempt")
        /\ addCalls = 0
        /\ stored = pre

(* C14: in every state persisted from the default state by recordFailure(),
   reset() and getStatus(), lockoutUntil is non-null exactly when
   consecutiveFailures >= 5, and then it is lastAttemptTime plus the backoff
   of that counter. *)
C14_LockoutFromCounter ==
    ~IsAbsent(stored) =>
        /\ stored.lockoutUntil # NULL <=> stored.consecutiveFailures >= 5
        /\ stored.lockoutUntil # NULL =>
               stored.lockoutUntil =
                   stored.lastAttemptTime
                       + calculateBackoffDuration(stored.consecutiveFailures)

C14_Witness ==
    /\ op = "recordFailure"
    /\ ret = Void
    /\ PreData.lockoutUntil # NULL
    /\ PreData.lockoutUntil > now
    /\ stored.consecutiveFailures = 7
    /\ stored.lockoutUntil = stored.lastAttemptTime + 480000

(* C15: the lockout recordFailure() sets never ends more than 24h after the
   failure, and ends exactly 24h after it once the counter reached the cap
   of the backoff (2^(c-4) minutes >= 24h, that is c >= 15), as for a stored
   counter of 100. *)
C15_LockoutCappedAtOneDay ==
    (op = "recordFailure" /\ ret = Void) =>
        /\ stored.lockoutUntil # NULL => stored.lockoutUntil - now <= 86400000
        /\ stored.consecutiveFailures >= 15 =>
               stored.lockoutUntil - now = 86400000

C15_Witness ==
    /\ op = "recordFailure"
    /\ ret = Void
    /\ PreData.consecutiveFailures = 100
    /\ stored.consecutiveFailures = 101
    /\ stored.lockoutUntil - now = 86400000

\* the last call was a getStatus() that read a stored lockout and whose
\* storage calls succeeded
StatusOfLockout ==
    /\ op = "getStatus"
    /\ ReadOk
    /\ ~writeThrew
    /\ PreData.lockoutUntil # NULL

(* C16 as stated: every lockout set by recordFailure() is observed by
   getStatus(), at the instant its lockoutUntil passes, as unlocked with 0
   remaining attempts, never as unlocked with 5 remaining attempts. *)
C16_AsStated ==
    (StatusOfLockout /\ now = PreData.lockoutUntil) =>
        ret = Status(FALSE, 0, 0)

(* C16: a lockout set by recordFailure() is reported locked while it lasts,
   unlocked with 0 remaining attempts from the instant it passes until 24h
   after the failure, and unlocked with 5 remaining attempts from 24h after
   the failure on; a lockout of 24h (counter >= 15) passes at that very
   instant and so goes from locked directly to unlocked with 5 remaining
   attempts.  5 remaining attempts are reported only on the default state or
   when 24h have passed since lastAttemptTime. *)
C16_NoStateSkippedBelowCap ==
    /\ StatusOfLockout =>
           /\ now < PreData.lockoutUntil =>
                  ret = Status(TRUE, PreData.lockoutUntil - now, 0)
           /\ (now >= PreData.lockoutUntil
                   /\ now - PreData.lastAttemptTime < 86400000) =>
                  ret = Status(FALSE, 0, 0)
           /\ now - PreData.lastAttemptTime >= 86400000 =>
                  ret = Status(FALSE, 0, 5)
           /\ (now = PreData.lockoutUntil /\ PreData.consecutiveFailures < 15) =>
                  ret = Status(FALSE, 0, 0)
           /\ (now = PreData.lockoutUntil /\ PreData.consecutiveFailures >= 15) =>
                  ret = Status(FALSE, 0, 5)
    /\ (op = "getStatus" /\ ReadOk /\ ret.kind = "status"
            /\ ret.remainingAttempts = 5) =>
           (PreData.consecutiveFailures = 0 \/ PreFresh)

C16_Witness ==
    /\ StatusOfLockout
    /\ PreData.consecutiveFailures = 5
    /\ now = PreData.lockoutUntil
    /\ ret = Status(FALSE, 0, 0)
    /\ stored = pre

(* C17: with a bound storage getStatus() and getRemainingAttempts() always
   return a value and never fail, whether storage.get fails or the
   storage.add of the cooldown reset fails. *)
C17_StatusQueriesNeverFail ==
    (op \in { "getStatus", "getRemainingAttempts" } /\ storage # "null") =>
        ret.kind \in { "status", "value" }

(* C18: setStorage(storage) fails with 'Storage must have get and add
   methods' for a falsy argument and leaves the bound storage as it was; any
   other argument becomes the storage, which no other method rebinds and
   which the later calls use. *)
C18_SetStorageBinds ==
    /\ op = "setStorage" =>
           IF arg = "null"
           THEN /\ ret = Threw("Storage must have get and add methods")
                /\ storage = storageBefore
           ELSE /\ ret = Void
                /\ storage = arg
    /\ op # "setStorage" => storage = storageBefore
    /\ op = "getData" =>
           /\ ret.kind = "error" <=> storage = "null"
           /\ storage = "invalid" => readThrew

C18_Witness ==
    /\ op = "setStorage"
    /\ arg = "null"
    /\ storageBefore = "bound"
    /\ storage = "bound"
    /\ ret = Threw("Storage must have get and add methods")
    /\ ~IsAbsent(stored)

----------------------------------------------------------------------------
(* Properties of the master password manager *)

\* the RateLimitState the store holds
StoredData == IF IsAbsent(stored) THEN DEFAULT_DATA ELSE stored

\* the messages of a failed password entry
AuthenticationFailures ==
    { "Provided credentials do not match existing master encryption",
      "Error decrypting vault key",
      "Invalid password" }

(* C19: after createMasterPassword(p), initWithPassword(p) returns
   {success: true}, and initWithPassword(p') with p' # p fails and leaves the
   rate limiter's consecutiveFailures one higher than before, with the vault
   store open or closed. *)
C19_RoundTrip ==
    (op = "initWithPassword" /\ created # "none") =>
        IF arg = created
        THEN ret = Success
        ELSE /\ ret.kind = "error"
             /\ StoredData.consecutiveFailures =
                    PreData.consecutiveFailures + 1

(* C20: every failed password entry (initWithPassword on an open vault
   store, initWithPassword on a closed vault store, updateMasterPassword with
   a wrong currentPassword) calls recordFailure exactly once. *)
C20_FailureRecordedOnce ==
    (/\ op \in { "initWithPassword", "updateMasterPassword" }
     /\ ret.kind = "error"
     /\ ret.message \in AuthenticationFailures) =>
        RecordFailureCalls(calls) = 1

\* the (ciphertext, nonce, salt) a projection holds
Triple(record) ==
    IF IsAbsent(record) THEN NoRecord
    ELSE [ciphertext |-> record.ciphertext, nonce |-> record.nonce,
          salt |-> record.salt]

\* the collaborators the last manager call invoked
Invoked == { calls[i] : i \in DOMAIN calls }

(* C21: at every point in time, also after a failed store write of
   createMasterPassword or updateMasterPassword, the masterEncryption record
   of the vault store and the masterPassword record of the encryption store
   hold the same (ciphertext, nonce, salt). *)
C21_ProjectionsAgree == Triple(masterEncryption) = Triple(masterPassword)

(* C22: the masterPassword record of the encryption store has the fields
   ciphertext, nonce and salt and no hashedPassword; the masterEncryption
   record of the vault store has all four. *)
C22_HashStaysInVault ==
    /\ ~IsAbsent(masterPassword) =>
           DOMAIN masterPassword = { "ciphertext", "nonce", "salt" }
    /\ ~IsAbsent(masterEncryption) =>
           DOMAIN masterEncryption =
               { "ciphertext", "nonce", "salt", "hashedPassword" }
    /\ (op \in { "createMasterPassword", "updateMasterPassword" }
            /\ ret.kind = "material") =>
           /\ masterPassword =
                  MasterPasswordRecord(ret.ciphertext, ret.nonce, ret.salt)
           /\ masterEncryption =
                  MasterEncryptionRecord(ret.ciphertext, ret.nonce, ret.salt,
                                         ret.hashedPassword)

C22_Witness ==
    /\ op = "updateMasterPassword"
    /\ ret.kind = "material"
    /\ DOMAIN masterPassword = { "ciphertext", "nonce", "salt" }
    /\ masterEncryption.hashedPassword = ret.hashedPassword
    /\ masterEncryption # mgrPre.masterEncryption

\* the last call was an updateMasterPassword whose currentPassword does not
\* hash to the stored hashedPassword
UpdateMismatch ==
    /\ op = "updateMasterPassword"
    /\ ~constantTimeHashCompare(
            mgrPre.masterEncryption.hashedPassword,
            getDecryptionKey(mgrPre.masterEncryption.salt,
                             arg.currentPassword))

(* C23: updateMasterPassword with a currentPassword whose hash does not
   match the stored hashedPassword fails with 'Invalid password'; neither
   projection is written, no hash or ciphertext is made, the vault key is not
   decrypted and the stores are as they were. *)
C23_InvalidPasswordTouchesNothing ==
    UpdateMismatch =>
        /\ ret = Threw("Invalid password")
        /\ Invoked \cap { "vaultsAdd", "encryptionAdd", "hashPassword",
                          "encryptVaultWithKey", "decryptVaultKey",
                          "masterVaultInit" } = { }
        /\ ManagerState = mgrPre

C23_Witness ==
    /\ UpdateMismatch
    /\ ret = Threw("Invalid password")
    /\ ~IsAbsent(masterPassword)
    /\ calls = << "vaultsGet", "getDecryptionKey", "constantTimeHashCompare" >>

(* C24: after updateMasterPassword returned or failed, also on a rejected
   vault-store or encryption-store write, both projections hold the new
   material or both hold what they held before the call. *)
C24_RotationAtomic ==
    op = "updateMasterPassword" =>
        \/ /\ masterEncryption = mgrPre.masterEncryption
           /\ masterPassword = mgrPre.masterPassword
        \/ /\ masterEncryption # mgrPre.masterEncryption
           /\ masterPassword # mgrPre.masterPassword
           /\ Triple(masterEncryption) = Triple(masterPassword)

\* the vault key the masterEncryption record yields under a password
RecoveredKey(record, password) ==
    decryptVaultKey(record.ciphertext, record.nonce,
                    getDecryptionKey(record.salt, password))

\* the last call was an updateMasterPassword that returned
Rotated == op = "updateMasterPassword" /\ ret.kind = "material"

(* C25: an updateMasterPassword that returns has wrapped the same vault key
   anew: the key the new record yields under newPassword is the key the old
   record yielded under currentPassword, what it returns and what both
   stores hold is the salt, hash, ciphertext and nonce made in the call for
   newPassword, and an initWithPassword(newPassword) made right after it
   returns {success: true}. *)
C25_RotationKeepsVaultKey ==
    /\ [](Rotated =>
           /\ RecoveredKey(masterEncryption, arg.newPassword) # "undefined"
           /\ RecoveredKey(masterEncryption, arg.newPassword) =
                  RecoveredKey(mgrPre.masterEncryption, arg.currentPassword)
           /\ RecoveredKey(masterPassword, arg.newPassword) =
                  RecoveredKey(masterEncryption, arg.newPassword)
           /\ ret.hashedPassword = hashPassword(arg.newPassword, ret.salt)
           /\ ret.ciphertext.under = ret.hashedPassword
           /\ ret.ciphertext.nonce = ret.nonce
           /\ masterEncryption =
                  MasterEncryptionRecord(ret.ciphertext, ret.nonce, ret.salt,
                                         ret.hashedPassword)
           /\ masterPassword =
                  MasterPasswordRecord(ret.ciphertext, ret.nonce, ret.salt))
    /\ [][(Rotated /\ op' = "initWithPassword" /\ arg' = arg.newPassword) =>
              ret' = Success]_vars

C25_Witness ==
    /\ Rotated
    /\ arg.newPassword # arg.currentPassword
    /\ ret.salt # mgrPre.masterEncryption.salt
    /\ masterEncryption.ciphertext # mgrPre.masterEncryption.ciphertext
    /\ RecoveredKey(masterEncryption, arg.newPassword) = vaultsKey
    /\ RecoveredKey(masterEncryption, arg.currentPassword) = "undefined"

(* C26: initWithCredentials fails with 'Missing required parameters'
   exactly when ciphertext, nonce or hashedPassword is missing, and then
   before any collaborator was called: the encryption subsystem is not
   initialized, nothing is decrypted, the vault store is not initialized and
   every store is as it was. *)
C26_MissingParametersFirst ==
    op = "initWithCredentials" =>
        IF arg.present # BundleFields
        THEN /\ ret = Threw("Missing required parameters")
             /\ calls = << >>
             /\ ManagerState = mgrPre
             /\ stored = pre
        ELSE ret # Threw("Missing required parameters")

C26_Witness ==
    /\ op = "initWithCredentials"
    /\ arg.present = { "ciphertext", "nonce" }
    /\ ret = Threw("Missing required parameters")
    /\ ~encryptionInitialized
    /\ ~vaultsInitialized

\* the last call was an initWithCredentials with a complete bundle
CompleteBundle == op = "initWithCredentials" /\ arg.present = BundleFields

(* C27: initWithCredentials never touches the rate limiter: a bundle that
   does not decrypt fails with 'Error decrypting vault key', records no
   failure and leaves the vault store as it was; a bundle that decrypts
   initializes the vault store with the recovered key and returns
   {success: true}; the RateLimitState is the same before and after. *)
C27_CredentialsBypassLimiter ==
    /\ op = "initWithCredentials" =>
           /\ stored = pre
           /\ "rateLimitRecordFailure" \notin Invoked
    /\ CompleteBundle =>
           LET vaultKey == decryptVaultKey(arg.ciphertext, arg.nonce,
                                           arg.hashedPassword)
           IN  IF vaultKey = "undefined"
               THEN /\ ret = Threw("Error decrypting vault key")
                    /\ "masterVaultInit" \notin Invoked
                    /\ vaultsInitialized = mgrPre.vaultsInitialized
                    /\ vaultsKey = mgrPre.vaultsKey
               ELSE /\ ret = Success
                    /\ "masterVaultInit" \in Invoked
                    /\ vaultsInitialized
                    /\ vaultsKey = vaultKey

C27_Witness ==
    /\ CompleteBundle
    /\ ret = Threw("Error decrypting vault key")
    /\ ~vaultsInitialized
    /\ ~IsAbsent(stored)
    /\ stored.consecutiveFailures = 1
    /\ stored = pre

\* the last call was an initWithPassword made with the vault store open
OpenVaultEntry == op = "initWithPassword" /\ mgrPre.vaultsInitialized

\* the last call was an initWithPassword made with the vault store closed
ClosedVaultEntry == op = "initWithPassword" /\ ~mgrPre.vaultsInitialized

(* C28: with the vault store already initialized, initWithPassword decides
   by comparing the hash derived from the stored salt and the password with
   the stored hashedPassword alone: {success: true} on a match, 'Provided
   credentials do not match existing master encryption' on a mismatch; it
   decrypts no vault key and does not initialize the vault store again. *)
C28_OpenVaultComparesHash ==
    OpenVaultEntry =>
        /\ ret = IF constantTimeHashCompare(
                        mgrPre.masterEncryption.hashedPassword,
                        getDecryptionKey(mgrPre.masterEncryption.salt, arg))
                 THEN Success
                 ELSE Threw("Provided credentials do not match existing master encryption")
        /\ "constantTimeHashCompare" \in Invoked
        /\ Invoked \cap { "decryptVaultKey", "masterVaultInit",
                          "encryptionGet" } = { }
        /\ ManagerState = mgrPre

\* the password is accepted against the hash although the encryption store
\* holds another record
C28_Witness ==
    /\ OpenVaultEntry
    /\ ret = Success
    /\ Triple(masterPassword) # Triple(masterEncryption)
    /\ calls = << "vaultsGet", "getDecryptionKey", "constantTimeHashCompare" >>

(* C29: with the vault store not initialized, initWithPassword initializes
   it exactly when the ciphertext of the encryption store decrypts under the
   derived hash, with the key recovered, and returns {success: true};
   otherwise it records one failure in the rate limiter, fails with 'Error
   decrypting vault key' and leaves the vault store uninitialized.  It
   returns nothing else. *)
C29_ClosedVaultDecrypts ==
    ClosedVaultEntry =>
        LET vaultKey == RecoveredKey(mgrPre.masterPassword, arg)
        IN  /\ vaultsInitialized <=> vaultKey # "undefined"
            /\ IF vaultKey = "undefined"
               THEN /\ ret = Threw("Error decrypting vault key")
                    /\ RecordFailureCalls(calls) = 1
                    /\ stored = recordFailureData(PreData, now)
                    /\ vaultsKey = "none"
                    /\ "masterVaultInit" \notin Invoked
               ELSE /\ ret = Success
                    /\ RecordFailureCalls(calls) = 0
                    /\ stored = pre
                    /\ vaultsKey = vaultKey
                    /\ "masterVaultInit" \in Invoked

C29_Witness ==
    /\ ClosedVaultEntry
    /\ ret = Threw("Error decrypting vault key")
    /\ ~vaultsInitialized
    /\ PreData.consecutiveFailures = 1
    /\ stored.consecutiveFailures = 2

\* the last call was an initWithPassword made within a lockout window
LockedEntry ==
    /\ op = "initWithPassword"
    /\ PreData.lockoutUntil # NULL
    /\ now < PreData.lockoutUntil

\* the password of the last initWithPassword is the one the record it was
\* checked against was made with
RightPassword ==
    IF mgrPre.vaultsInitialized
    THEN constantTimeHashCompare(
             mgrPre.masterEncryption.hashedPassword,
             getDecryptionKey(mgrPre.masterEncryption.salt, arg))
    ELSE RecoveredKey(mgrPre.masterPassword, arg) # "undefined"

(* C30 as stated: an initWithPassword made while the rate limiter is locked
   (lockoutUntil non-null and in the future) does not succeed and does not
   initialize the vault store, even with the right password. *)
C30_AsStated ==
    LockedEntry =>
        /\ ret # Success
        /\ vaultsInitialized = mgrPre.vaultsInitialized

(* C30: within a lockout window getStatus() reports isLocked = true with 0
   remaining attempts, by which the caller is to reject a login attempt
   before verification; initWithPassword itself does not consult the rate
   limiter: called within the window it returns {success: true} exactly when
   the password is right, and then leaves the vault store initialized. *)
C30_LockoutLeftToCaller ==
    LockedEntry =>
        /\ getStatusResult(PreData, now) =
               Status(TRUE, PreData.lockoutUntil - now, 0)
        /\ ret = Success <=> RightPassword
        /\ ret # Success => ret.kind = "error"
        /\ ret = Success => vaultsInitialized
        /\ "rateLimitRecordFailure" \in Invoked =>
               stored = recordFailureData(PreData, now)
        /\ "rateLimitRecordFailure" \notin Invoked => stored = pre

C30_Witness ==
    /\ LockedEntry
    /\ ~mgrPre.vaultsInitialized
    /\ ret = Success
    /\ vaultsInitialized
    /\ getStatusResult(StoredData, now).isLocked

----------------------------------------------------------------------------
(* Further properties of the rate limiter *)

(* C31: a recordFailure() made on a stored lockout, with no fresh start due,
   is counted and never shortens the lockout: the lockoutUntil it persists is
   at least the one it found, also when the storage read fails. *)
C31_LockoutNeverShortened ==
    (/\ op = "recordFailure"
     /\ ret = Void
     /\ ~PreFresh
     /\ PreData.lockoutUntil # NULL) =>
        /\ stored.consecutiveFailures = PreData.consecutiveFailures + 1
        /\ stored.lockoutUntil # NULL
        /\ stored.lockoutUntil >= PreData.lockoutUntil

(* C32: except through reset() or a fresh start, the persisted counter never
   decreases: a recordFailure() that returns leaves it greater than it found
   it, and getStatus(), getRemainingAttempts() and getData() leave it as it
   is, also when the storage read fails. *)
C32_CounterNeverDecreases ==
    /\ (op = "recordFailure" /\ ret = Void /\ ~PreFresh) =>
           stored.consecutiveFailures > PreData.consecutiveFailures
    /\ (op \in { "getStatus", "getRemainingAttempts", "getData" }
            /\ ~PreFresh) =>
           StoredData.consecutiveFailures >= PreData.consecutiveFailures

\* a fresh start applied to the state the last call read
ReadFresh ==
    /\ storage # "null"
    /\ shouldGrantFreshStart(getData(pre, readThrew, now).lastAttemptTime, now)

(* C33: getData() and getRemainingAttempts() never call storage.add;
   getStatus() calls it only when a fresh start applies, once and with the
   default state; with no fresh start getStatus() leaves the store as it is,
   unlocked, locked or past a lockout. *)
C33_ReadsDoNotWrite ==
    /\ op \in { "getData", "getRemainingAttempts" } =>
           addCalls = 0 /\ stored = pre
    /\ op = "getStatus" =>
           IF ReadFresh
           THEN /\ addCalls = 1
                /\ stored = IF writeThrew THEN pre ELSE DEFAULT_DATA
           ELSE addCalls = 0 /\ stored = pre

C33_Witness ==
    /\ op = "getStatus"
    /\ PreExpired
    /\ ~readThrew
    /\ PreData.consecutiveFailures \in 1 .. 4
    /\ ~ReadFresh
    /\ addCalls = 0
    /\ stored = pre

(* C34: every value getStatus() returns is consistent: remainingAttempts is
   in 0..5 and lockoutRemainingMs >= 0; isLocked = true comes with
   remainingAttempts = 0 and lockoutRemainingMs = lockoutUntil - now > 0;
   isLocked = false comes with lockoutRemainingMs = 0. *)
C34_StatusConsistent ==
    (op = "getStatus" /\ ret.kind = "status") =>
        /\ ret.remainingAttempts \in 0 .. 5
        /\ ret.lockoutRemainingMs >= 0
        /\ ret.isLocked =>
               /\ ret.remainingAttempts = 0
               /\ ~readThrew
               /\ ret.lockoutRemainingMs = PreData.lockoutUntil - now
               /\ ret.lockoutRemainingMs > 0
        /\ ~ret.isLocked => ret.lockoutRemainingMs = 0

C34_Witness ==
    /\ op = "getStatus"
    /\ ret = Status(TRUE, 60000, 0)
    /\ PreData.consecutiveFailures \in 1 .. 4
    /\ PreData.lockoutUntil = now + 60000

(* C35: in every state reached from the default state the lockout ends at
   most 24h after lastAttemptTime; so whenever a fresh start applies the
   lockout has passed, and no fresh start of getStatus() or recordFailure()
   cuts short a lockout that is still active. *)
C35_FreshStartAfterLockout ==
    /\ StoredData.lockoutUntil # NULL =>
           /\ StoredData.lastAttemptTime # NULL
           /\ StoredData.lockoutUntil <=
                  StoredData.lastAttemptTime + COOLDOWN_PERIOD_MS
    /\ (/\ StoredData.lockoutUntil # NULL
        /\ shouldGrantFreshStart(StoredData.lastAttemptTime, now)) =>
           isLockoutExpired(StoredData.lockoutUntil, now)
    /\ (/\ op \in { "getStatus", "recordFailure" }
        /\ ReadOk
        /\ PreFresh
        /\ PreData.lockoutUntil # NULL) =>
           now >= PreData.lockoutUntil

\* the fresh start falls on the very instant a 24h lockout ends
C35_Witness ==
    /\ op = "getStatus"
    /\ ReadOk
    /\ PreFresh
    /\ PreData.consecutiveFailures = 15
    /\ PreData.lockoutUntil = PreData.lastAttemptTime + COOLDOWN_PERIOD_MS
    /\ now = PreData.lockoutUntil
    /\ stored = DEFAULT_DATA

(* C37: with no storage bound getData(), getStatus() and
   getRemainingAttempts() fail with 'Storage not initialized.', recordFailure()
   fails with 'Rate limiter unavailable - denying attempt', and nothing is
   written; recordFailure() reports that error in no other situation. *)
C37_UnboundStorageFails ==
    /\ (storage = "null"
            /\ op \in { "getData", "getStatus", "getRemainingAttempts" }) =>
           ret = Threw("Storage not initialized.")
    /\ (storage = "null" /\ op = "recordFailure") =>
           ret = Threw("Rate limiter unavailable - denying attempt")
    /\ (storage = "null" /\ op = "reset") => ret.kind = "error"
    /\ storage = "null" => addCalls = 0 /\ stored = pre /\ IsAbsent(stored)
    /\ (op = "recordFailure"
            /\ ret = Threw("Rate limiter unavailable - denying attempt")) =>
           storage = "null"
    /\ (op \in { "getData", "getStatus", "getRemainingAttempts" }
            /\ ret = Threw("Storage not initialized.")) =>
           storage = "null"

C37_Witness ==
    /\ op = "recordFailure"
    /\ storage = "null"
    /\ storageBefore = "null"
    /\ ret = Threw("Rate limiter unavailable - denying attempt")
    /\ addCalls = 0

----------------------------------------------------------------------------
(* Properties of overlapping calls *)

(* C36: every recordFailure() that completes is counted: from the default
   state, with no reset, no cooldown and no storage fault, once no call is
   in flight the persisted consecutiveFailures equals the number of
   recordFailure() calls that completed, however the reads and writes of
   the calls interleave; and the reset of a getStatus() that a
   recordFailure() overtook does not erase the failure it recorded. *)
C36_EveryFailureCounted ==
    /\ (AllIdle /\ ~restarted) => StoredData.consecutiveFailures = completed
    /\ (op = "getStatus.reset" /\ arg.overtaken) => stored # DEFAULT_DATA

----------------------------------------------------------------------------
(* Properties of the IPC endpoint *)

\* the listener calls a stream with these listeners makes when nothing throws
Heard(ls) ==
    (IF "data" \in ls THEN << "data:meta", "data:file" >> ELSE << >>)
    \o (IF "end" \in ls THEN << "end" >> ELSE << >>)

IsPrefix(s, t) == Len(s) <= Len(t) /\ \A i \in 1 .. Len(s) : s[i] = t[i]

\* the listener calls before the error event, if there is one
BeforeError(s) ==
    IF Len(s) > 0 /\ s[Len(s)] = "error" THEN SubSeq(s, 1, Len(s) - 1) ELSE s

Occurs(e, s) == \E i \in 1 .. Len(s) : s[i] = e

(* C38: the stream of a message with a filePath calls no listener before
   its microtask runs, which is after the code that created it returned to
   the event loop; it then calls the listeners registered by then in the
   order data (metadata), data (file contents), end, each at most once, all
   of them when nothing throws; when reading the file throws it has called
   data with the metadata, calls error, and does not call end. *)
C38_StreamEvents ==
    /\ microtask.state # "ran" => emitted = << >>
    /\ microtask.state = "ran" =>
         /\ stream = "created" /\ request.filePath
         /\ microtask.during # "running"
         /\ IsPrefix(BeforeError(emitted), Heard(microtask.listeners))
         /\ (~microtask.readThrew /\ ~microtask.listenerThrew)
                => emitted = Heard(microtask.listeners)
         /\ microtask.readThrew =>
              /\ ~Occurs("end", emitted)
              /\ BeforeError(emitted) = << "data:meta" >>
              /\ "error" \in microtask.listeners
                     => emitted = << "data:meta", "error" >>

C38_Witness ==
    /\ microtask.state = "ran"
    /\ microtask.listeners = Events
    /\ request.filePath
    /\ request.readable
    /\ emitted = << "data:meta", "data:file", "end" >>

(* C39: every reply is written to the channel the request arrived on,
   whichever transport was selected when the module was loaded, and
   req.reply does not fail. *)
C39_ReplyOnRequestChannel ==
    /\ \A i \in 1 .. Len(written) : written[i].channel = request.via
    /\ (IpcOpen /\ request # NoRequest) => ipcError # "ReferenceError"

====
